---- MODULE Spec2Model ----
(***************************************************************************)
(* MultipartWriter (core/src/raw/oio/write/multipart_write.rs) driven by   *)
(* a sequential caller, on top of the TestWrite backend of the same file   *)
(* with failure injection on every primitive, and of the ConcurrentTasks   *)
(* pool.  The caller makes one call at a time and may go on calling after  *)
(* a close or an abort has returned.                                       *)
(*                                                                         *)
(* Option<T> is a sequence of length 0 (None) or 1 (Some).  A Buffer is a  *)
(* sequence of bytes.  A call result is "ok" or the tag of the error that  *)
(* the call returned.                                                      *)
(***************************************************************************)
EXTENDS Integers, Sequences, FiniteSets, TLC

\* ---------------------------------------------------------------- bounds
\* number of calls the caller makes on one writer
MaxCalls == 6
\* number of failures (errors and timeouts) the environment injects
MaxFails == 2
\* the `concurrent` argument of MultipartWriter::new
Concurrent == 2

\* ------------------------------------------------------ program constants
\* the prefetch argument of ConcurrentTasks::new
Prefetch == 8192
\* TestWrite::upload_id, the id initiate_part returns
TestUploadId == "uid"

VARIABLES
    upload_id,          \* MultipartWriter.upload_id : Option<String>
    parts,              \* MultipartWriter.parts : Vec<MultipartPart>
    cache,              \* MultipartWriter.cache : Option<Buffer>
    next_part_number,   \* MultipartWriter.next_part_number
    tasks,              \* ConcurrentTasks: tasks held by the pool, in submission order
    results,            \* ConcurrentTasks: results taken from finished tasks, not yet returned
    part_numbers,       \* TestWrite.part_numbers
    length,             \* TestWrite.length
    content,            \* TestWrite.content : Option<Buffer>
    pc,                 \* position of the caller: "idle", inside close's drain loop, or panicked
    hist,               \* history: the calls the caller made, with their results
    calls,              \* history: the calls the backend received
    submitted,          \* history: the inputs tasks.execute accepted
    completed,          \* history: the parts lists given to successful complete_part calls
    fails,              \* number of failures injected so far
    has_timeout,        \* Executor::timeout() returns Some
    info,               \* LoggingAccessor.info
    ops,                \* accessor operations awaiting the inner accessor, or
                        \* returned with a stream wrapper the caller still holds
    done,               \* the operation that returned in the last step, if it
                        \* returned no stream (length 0 or 1)
    op_count,           \* number of accessor operations started so far
    stream_count,       \* number of calls made on stream wrappers so far
    info_ret,           \* what LoggingAccessor::info() returned in the last step
    presigned           \* the calls of GcsBackend::presign made so far

writer == <<upload_id, parts, cache, next_part_number>>
pool == <<tasks, results>>
backend == <<part_numbers, length, content>>
executor == <<has_timeout>>
multipart == <<upload_id, parts, cache, next_part_number, tasks, results,
               part_numbers, length, content, pc, hist, calls, submitted, completed,
               fails, has_timeout>>
logging == <<info, ops, done, op_count, stream_count, info_ret>>
gcs == <<presigned>>
vars == <<multipart, logging, gcs>>

\* ------------------------------------------------------------- helpers
Range(s) == {s[i] : i \in 1..Len(s)}

RECURSIVE SumLen(_)
SumLen(s) == IF s = <<>> THEN 0 ELSE Len(Head(s)) + SumLen(Tail(s))

\* 0, 1, ..., n-1 as a sequence
UpTo(n) == [i \in 1..n |-> i - 1]

PartNumbersOf(ps) == [i \in 1..Len(ps) |-> ps[i].part_number]

\* ------------------------------------------------------ records
\* struct WriteInput
WriteInput(id, pn, bs) == [upload_id |-> id, part_number |-> pn, bytes |-> bs]

\* struct MultipartPart, as TestWrite::write_part builds it
MultipartPart(pn) == [part_number |-> pn, etag |-> "etag"]

\* one call received by the backend
BackendCall(op, id, pn, size, body, ps, res) ==
    [op |-> op, upload_id |-> id, part_number |-> pn, size |-> size,
     body |-> body, parts |-> ps, res |-> res]

\* the call the task body makes: write_part(upload_id, part_number, len, bytes)
WritePartCall(input) ==
    BackendCall("write_part", <<input.upload_id>>, input.part_number,
                Len(input.bytes), input.bytes, <<>>, "spawned")

\* one call made by the caller; meta is the content length of the Metadata
\* that close returned, when it returned one
DriverCall(op, bs, res, meta) == [op |-> op, bs |-> bs, res |-> res, meta |-> meta]

\* --------------------------------------------------- ConcurrentTasks
\* The pool (raw/futures_util.rs) is described by section 4.3 of the design:
\* at most Concurrent tasks are held, in submission order; a task body is
\* started when execute accepts its input; results are returned in
\* submission order.  A failed task is surfaced once, by the execute or
\* next that waits for it, and is started again from the input that the task
\* body returns with its result; an execute that returns an error has not
\* accepted its own input.  The errors of write_part are temporary, as in
\* TestWrite.
\* a writer that gives the pool one more slot than it was asked for
PoolConcurrentPlusOne(concurrent) == concurrent + 1

\* ConcurrentTasks::new(executor, concurrent, 8192, ..): the limit the writer
\* gives its pool
PoolConcurrent(concurrent) == concurrent

\* a task of the pool: its input, the state of its future, and what the
\* task body returned once it has finished
Task(input) == [input |-> input, st |-> "running", out |-> <<>>]

\* execute() can return: there is slack, or the head task has finished
CanExecute(t, r) ==
    IF Len(t) < PoolConcurrent(Concurrent) /\ Len(r) < Prefetch THEN TRUE
    ELSE IF t = <<>> THEN FALSE
    ELSE t[1].st # "running"

\* a pool whose execute accepts every input at once
ExecuteUnbounded(t, r, input) ==
    [tasks |-> Append(t, Task(input)), results |-> r, res |-> "ok",
     started |-> <<input>>]

\* execute(input): what the pool holds afterwards, the result of the call,
\* and the task bodies it started
Execute(t, r, input) ==
    IF Len(t) < PoolConcurrent(Concurrent) /\ Len(r) < Prefetch
    THEN [tasks |-> Append(t, Task(input)), results |-> r, res |-> "ok",
          started |-> <<input>>]
    ELSE IF t[1].st = "ok"
    THEN [tasks |-> Append(Tail(t), Task(input)),
          results |-> Append(r, MultipartPart(t[1].input.part_number)),
          res |-> "ok", started |-> <<input>>]
    ELSE [tasks |-> <<Task(t[1].input)>> \o Tail(t), results |-> r,
          res |-> t[1].st, started |-> <<t[1].input>>]

\* next() can return: a result is queued, the head task has finished, or the pool is idle
CanNext(t, r) ==
    IF r # <<>> \/ t = <<>> THEN TRUE ELSE t[1].st # "running"

\* a pool whose next() returns the result of its last task when that task
\* has finished, whatever the tasks before it
PoolNextUnordered(t, r) ==
    IF r # <<>>
    THEN [tasks |-> t, results |-> Tail(r), res |-> "ok", out |-> <<Head(r)>>,
          started |-> <<>>]
    ELSE IF t = <<>>
    THEN [tasks |-> t, results |-> r, res |-> "none", out |-> <<>>, started |-> <<>>]
    ELSE IF t[Len(t)].st = "ok"
    THEN [tasks |-> SubSeq(t, 1, Len(t) - 1), results |-> r, res |-> "ok",
          out |-> <<MultipartPart(t[Len(t)].input.part_number)>>, started |-> <<>>]
    ELSE IF t[1].st = "ok"
    THEN [tasks |-> Tail(t), results |-> r, res |-> "ok",
          out |-> <<MultipartPart(t[1].input.part_number)>>, started |-> <<>>]
    ELSE [tasks |-> <<Task(t[1].input)>> \o Tail(t), results |-> r,
          res |-> t[1].st, out |-> <<>>, started |-> <<t[1].input>>]

\* next(): res is "ok" with out = <<part>>, "none" when the pool is idle,
\* or the error of the head task, which is started again from its input
PoolNext(t, r) ==
    IF r # <<>>
    THEN [tasks |-> t, results |-> Tail(r), res |-> "ok", out |-> <<Head(r)>>,
          started |-> <<>>]
    ELSE IF t = <<>>
    THEN [tasks |-> t, results |-> r, res |-> "none", out |-> <<>>, started |-> <<>>]
    ELSE IF t[1].st = "ok"
    THEN [tasks |-> Tail(t), results |-> r, res |-> "ok",
          out |-> <<MultipartPart(t[1].input.part_number)>>, started |-> <<>>]
    ELSE [tasks |-> <<Task(t[1].input)>> \o Tail(t), results |-> r,
          res |-> t[1].st, out |-> <<>>, started |-> <<t[1].input>>]

\* clear(): every task, in flight or finished, and every queued result is
\* dropped; the pool is idle
PoolClear(t, r) == [tasks |-> <<>>, results |-> <<>>]

\* the write_part calls made by the task bodies a pool call started
StartedCalls(inputs) == [i \in 1..Len(inputs) |-> WritePartCall(inputs[i])]

\* ------------------------------------------------------ the caller
\* the writes that returned Ok so far
RECURSIVE Accepted(_)
Accepted(h) ==
    IF h = <<>> THEN <<>>
    ELSE LET c == h[Len(h)]
             rest == Accepted(SubSeq(h, 1, Len(h) - 1))
         IN  IF c.op = "write" /\ c.res = "ok" THEN Append(rest, c.bs) ELSE rest

\* the k-th buffer of the stream the caller writes: k bytes of value k, so
\* that the buffers differ in content and in size
StreamBuffer(k) == [i \in 1..k |-> k]

\* the buffer of the caller's next write: a write that failed is made again
\* with the same buffer
NextBuffer == StreamBuffer(Len(Accepted(hist)) + 1)

\* what inner.info() returns when the layer is applied
InnerInfo ==
    [scheme |-> "memory", name |-> "test",
     capability |-> {"stat", "read", "write", "delete", "list", "presign"}]

\* LoggingLayer::layer: let info = inner.info(); LoggingAccessor { inner, info, logger }
layer(inner_info) == inner_info

\* ------------------------------------------------------------- Init
Init ==
    /\ upload_id = <<>>
    /\ parts = <<>>
    /\ cache = <<>>
    /\ next_part_number = 0
    /\ tasks = <<>>
    /\ results = <<>>
    /\ part_numbers = <<>>
    /\ length = 0
    /\ content = <<>>
    /\ pc = "idle"
    /\ hist = <<>>
    /\ calls = <<>>
    /\ submitted = <<>>
    /\ completed = <<>>
    /\ fails = 0
    /\ has_timeout \in BOOLEAN
    /\ info = layer(InnerInfo)
    /\ ops = <<>>
    /\ done = <<>>
    /\ op_count = 0
    /\ stream_count = 0
    /\ info_ret = <<>>
    /\ presigned = <<>>

\* ------------------------------------------- steps of MultipartWriter
\* a writer that caches an empty buffer in place of the first write
fill_cache_empty(bs) == <<<<>>>>

\* fill_cache: self.cache = Some(bs)
fill_cache(bs) == <<bs>>

\* a writer that never takes the first write into the cache only
FirstWriteNever(id, c) == FALSE

\* write: upload_id is None and self.cache.is_none()
FirstWrite(id, c) == id = <<>> /\ c = <<>>

\* a writer that returns an error of its own in place of the error it got
PropagateRewritten(res) == IF res = "ok" THEN "ok" ELSE "E_unexpected"

\* expr.await?: the error of the callee is returned as it is
Propagate(res) == res

\* a writer whose close keeps the cache after it submitted it
CacheKeptByClose(c) == c

\* close, after execute returned Ok: self.cache = None
CacheAfterCloseSubmit(c) == <<>>

\* a writer that does not keep the upload id
RecordUploadIdDropped(id) == <<>>

\* self.upload_id = Some(upload_id.clone())
RecordUploadId(id) == <<id>>

\* a writer that submits the buffer of this call instead of the cached one
SubmitBytesOfCall(c, bs) == bs

\* let bytes = self.cache.clone().expect(..): the part body is the cached
\* buffer, not the buffer bs of this call
SubmitBytes(c, bs) == c[1]

\* a writer that numbers its parts from 1
SubmitPartNumberFromOne(n) == n + 1

\* let part_number = self.next_part_number
SubmitPartNumber(n) == n

\* a writer that counts the part before the pool has accepted it
PartNumberCharged(n, res) == n + 1

\* tasks.execute(..).await?; ..; self.next_part_number += 1:
\* next_part_number after the submit step, given the result of execute
PartNumberAfterSubmit(n, res) == IF res = "ok" THEN n + 1 ELSE n

\* a writer that replaces the cache before the pool has accepted the part
CacheReplaced(c, bs, res) == <<bs>>

\* tasks.execute(..).await?; self.cache = None; ..; self.fill_cache(bs):
\* the cache after write's submit step, given the result of execute
CacheAfterSubmit(c, bs, res) == IF res = "ok" THEN <<bs>> ELSE c

\* a writer that sends an empty body to write_once
OnceArgsEmpty(c) == [size |-> 0, body |-> <<>>]

\* (size, body) of close's write_once call
OnceArgs(c) == IF c = <<>> THEN [size |-> 0, body |-> <<>>]
               ELSE [size |-> Len(c[1]), body |-> c[1]]

\* a writer that clears the cache before write_once has succeeded
CacheClearedBeforeOnce(c, once_ok) == <<>>

\* write_once(..).await?; self.cache = None: the cache after write_once
CacheAfterOnce(c, once_ok) == IF once_ok THEN <<>> ELSE c

\* a writer that collects the results in reverse
PushPartFront(ps, p) == <<p>> \o ps

\* self.parts.push(result)
PushPart(ps, p) == Append(ps, p)

\* a writer that does not compare the collected parts with next_part_number
PartsMismatchIgnored(ps, n) == FALSE

\* if self.parts.len() != self.next_part_number
PartsMismatch(ps, n) == Len(ps) # n

\* a writer whose abort keeps the cache
CacheKeptByAbort(c) == c

\* abort: self.cache = None
CacheAfterAbort(c) == <<>>

\* a writer whose abort does not return early
AbortNoopNever(id) == FALSE

\* let Some(upload_id) = self.upload_id.clone() else { return Ok(()) }
AbortNoop(id) == id = <<>>

\* a writer whose abort calls complete_part
AbortCallCompletes(id, res) == BackendCall("complete_part", id, 0, 0, <<>>, <<>>, res)

\* self.w.abort_part(&upload_id)
AbortCall(id, res) == BackendCall("abort_part", id, 0, 0, <<>>, <<>>, res)

\* ---------------------------------------------------- MultipartWriter::write
\* init_ok is the outcome of initiate_part, when write calls it
Write(bs, init_ok) ==
    /\ UNCHANGED <<executor, logging, gcs>>
    /\ pc = "idle"
    /\ Len(hist) < MaxCalls
    /\ init_ok \/ (upload_id = <<>> /\ cache # <<>>)
    /\ IF FirstWrite(upload_id, cache)
       THEN \* fill_cache(bs); return Ok(())
            /\ cache' = fill_cache(bs)
            /\ hist' = Append(hist, DriverCall("write", bs, "ok", <<>>))
            /\ UNCHANGED <<upload_id, parts, next_part_number, pool, backend, pc,
                           calls, submitted, completed, fails>>
       ELSE IF upload_id = <<>> /\ ~init_ok
       THEN \* self.w.initiate_part().await?
            /\ fails < MaxFails
            /\ fails' = fails + 1
            /\ calls' = Append(calls,
                   BackendCall("initiate_part", <<>>, 0, 0, <<>>, <<>>, "E_initiate"))
            /\ hist' = Append(hist, DriverCall("write", bs, Propagate("E_initiate"), <<>>))
            /\ UNCHANGED <<writer, pool, backend, pc, submitted, completed>>
       ELSE LET id == IF upload_id = <<>> THEN TestUploadId ELSE upload_id[1]
                calls1 == IF upload_id = <<>>
                          THEN Append(calls, BackendCall("initiate_part", <<>>, 0, 0,
                                                         <<>>, <<>>, "ok"))
                          ELSE calls
            IN  IF cache = <<>>
                THEN \* expect("pending write must exist") panics
                     /\ pc' = "panicked"
                     /\ hist' = Append(hist, DriverCall("write", bs, "panic", <<>>))
                     /\ UNCHANGED <<writer, pool, backend, calls, submitted,
                                    completed, fails>>
                ELSE LET input == WriteInput(id, SubmitPartNumber(next_part_number),
                                              SubmitBytes(cache, bs))
                         e == Execute(tasks, results, input)
                     IN  /\ CanExecute(tasks, results)
                         /\ upload_id' = IF upload_id = <<>> THEN RecordUploadId(id)
                                         ELSE upload_id
                         /\ tasks' = e.tasks
                         /\ results' = e.results
                         /\ calls' = calls1 \o StartedCalls(e.started)
                         /\ hist' = Append(hist, DriverCall("write", bs, Propagate(e.res), <<>>))
                         /\ cache' = CacheAfterSubmit(cache, bs, e.res)
                         /\ next_part_number' =
                                PartNumberAfterSubmit(next_part_number, e.res)
                         /\ submitted' = IF e.res = "ok" THEN Append(submitted, input)
                                         ELSE submitted
                         /\ UNCHANGED <<parts, backend, pc, completed, fails>>

\* ---------------------------------------------------- MultipartWriter::close
\* close up to the drain loop; once_ok is the outcome of write_once
Close(once_ok) ==
    /\ UNCHANGED <<executor, logging, gcs>>
    /\ pc = "idle"
    /\ Len(hist) < MaxCalls
    /\ once_ok \/ upload_id = <<>>
    /\ IF upload_id = <<>>
       THEN LET body == OnceArgs(cache).body
                size == OnceArgs(cache).size
            IN  IF once_ok
                THEN \* TestWrite::write_once stores the body
                     /\ length' = size
                     /\ content' = <<body>>
                     /\ cache' = CacheAfterOnce(cache, TRUE)
                     /\ calls' = Append(calls, BackendCall("write_once", <<>>, 0, size,
                                                           body, <<>>, "ok"))
                     /\ hist' = Append(hist, DriverCall("close", <<>>, "ok", <<size>>))
                     /\ UNCHANGED <<upload_id, parts, next_part_number, pool,
                                    part_numbers, pc, submitted, completed, fails>>
                ELSE /\ fails < MaxFails
                     /\ fails' = fails + 1
                     /\ calls' = Append(calls, BackendCall("write_once", <<>>, 0, size,
                                                           body, <<>>, "E_once"))
                     /\ hist' = Append(hist, DriverCall("close", <<>>, Propagate("E_once"), <<>>))
                     /\ cache' = CacheAfterOnce(cache, FALSE)
                     /\ UNCHANGED <<upload_id, parts, next_part_number, pool, backend,
                                    pc, submitted, completed>>
       ELSE IF cache # <<>>
       THEN LET input == WriteInput(upload_id[1], SubmitPartNumber(next_part_number),
                                    cache[1])
                e == Execute(tasks, results, input)
            IN  /\ CanExecute(tasks, results)
                /\ tasks' = e.tasks
                /\ results' = e.results
                /\ calls' = calls \o StartedCalls(e.started)
                /\ next_part_number' = PartNumberAfterSubmit(next_part_number, e.res)
                /\ IF e.res = "ok"
                   THEN /\ cache' = CacheAfterCloseSubmit(cache)
                        /\ submitted' = Append(submitted, input)
                        /\ pc' = "draining"
                        /\ UNCHANGED hist
                   ELSE /\ hist' = Append(hist, DriverCall("close", <<>>, Propagate(e.res), <<>>))
                        /\ UNCHANGED <<cache, submitted, pc>>
                /\ UNCHANGED <<upload_id, parts, backend, completed, fails>>
       ELSE /\ pc' = "draining"
            /\ UNCHANGED <<writer, pool, backend, hist, calls, submitted, completed,
                           fails>>

\* one iteration of close's loop over tasks.next(), and what follows the loop;
\* complete_ok is the outcome of complete_part
CloseDrain(complete_ok) ==
    /\ UNCHANGED <<executor, logging, gcs>>
    /\ pc = "draining"
    /\ CanNext(tasks, results)
    /\ LET n == PoolNext(tasks, results)
       IN  /\ complete_ok \/ n.res = "none"
           /\ IF n.res = "ok"
              THEN /\ parts' = PushPart(parts, n.out[1])
                   /\ tasks' = n.tasks
                   /\ results' = n.results
                   /\ UNCHANGED <<upload_id, cache, next_part_number, backend, pc, hist,
                                  calls, submitted, completed, fails>>
              ELSE IF n.res # "none"
              THEN \* transpose()? returns the error of the part
                   /\ tasks' = n.tasks
                   /\ results' = n.results
                   /\ calls' = calls \o StartedCalls(n.started)
                   /\ hist' = Append(hist, DriverCall("close", <<>>, Propagate(n.res), <<>>))
                   /\ pc' = "idle"
                   /\ UNCHANGED <<writer, backend, submitted, completed, fails>>
              ELSE IF PartsMismatch(parts, next_part_number)
              THEN /\ hist' = Append(hist, DriverCall("close", <<>>, "E_mismatch", <<>>))
                   /\ pc' = "idle"
                   /\ UNCHANGED <<writer, pool, backend, calls, submitted, completed,
                                  fails>>
              ELSE IF complete_ok
              THEN /\ calls' = Append(calls, BackendCall("complete_part", upload_id, 0, 0,
                                                         <<>>, parts, "ok"))
                   /\ completed' = Append(completed, parts)
                   /\ hist' = Append(hist, DriverCall("close", <<>>, "ok", <<length>>))
                   /\ pc' = "idle"
                   /\ UNCHANGED <<writer, pool, backend, submitted, fails>>
              ELSE /\ fails < MaxFails
                   /\ fails' = fails + 1
                   /\ calls' = Append(calls, BackendCall("complete_part", upload_id, 0, 0,
                                                         <<>>, parts, "E_complete"))
                   /\ hist' = Append(hist, DriverCall("close", <<>>, Propagate("E_complete"), <<>>))
                   /\ pc' = "idle"
                   /\ UNCHANGED <<writer, pool, backend, submitted, completed>>

\* ---------------------------------------------------- MultipartWriter::abort
\* an abort that leaves the pool as it is
TasksKeptByAbort(t, r) == [tasks |-> t, results |-> r]

\* self.tasks.clear()
TasksAfterAbort(t, r) == PoolClear(t, r)

\* an abort that takes the upload id out of the writer
UploadIdTakenByAbort(id) == <<>>

\* let Some(upload_id) = self.upload_id.clone(): the field keeps its value
UploadIdAfterAbort(id) == id

\* abort_ok is the outcome of abort_part
Abort(abort_ok) ==
    /\ UNCHANGED <<executor, logging, gcs>>
    /\ pc = "idle"
    /\ Len(hist) < MaxCalls
    /\ abort_ok \/ ~AbortNoop(upload_id)
    /\ IF AbortNoop(upload_id)
       THEN /\ hist' = Append(hist, DriverCall("abort", <<>>, "ok", <<>>))
            /\ UNCHANGED <<writer, pool, backend, pc, calls, submitted, completed, fails>>
       ELSE /\ tasks' = TasksAfterAbort(tasks, results).tasks
            /\ results' = TasksAfterAbort(tasks, results).results
            /\ cache' = CacheAfterAbort(cache)
            /\ IF abort_ok
               THEN /\ calls' = Append(calls, AbortCall(upload_id, "ok"))
                    /\ hist' = Append(hist, DriverCall("abort", <<>>, "ok", <<>>))
                    /\ UNCHANGED fails
               ELSE /\ fails < MaxFails
                    /\ fails' = fails + 1
                    /\ calls' = Append(calls, AbortCall(upload_id, "E_abort"))
                    /\ hist' = Append(hist, DriverCall("abort", <<>>, Propagate("E_abort"), <<>>))
            /\ upload_id' = UploadIdAfterAbort(upload_id)
            /\ UNCHANGED <<parts, next_part_number, backend, pc, submitted, completed>>

\* ------------------------------------------- the task body of the pool
\* an Error: kind, message, context pairs, temporary flag
Error(kind, msg, context, temporary) ==
    [kind |-> kind, msg |-> msg, context |-> context, temporary |-> temporary]

\* TestWrite::write_part returns Ok(MultipartPart)
WritePartOk(input) == [ok |-> TRUE, part |-> <<MultipartPart(input.part_number)>>, err |-> <<>>]

\* TestWrite::write_part returns its temporary error
WritePartErr ==
    [ok |-> FALSE, part |-> <<>>,
     err |-> <<Error("Unexpected", "I'm a crazy monkey!", <<>>, TRUE)>>]

\* a timeout error that is not marked temporary
TimeoutErrorPermanent(input) ==
    Error("Unexpected", "write part timeout",
          <<<<"upload_id", input.upload_id>>, <<"part_number", input.part_number>>>>, FALSE)

\* Error::new(Unexpected, "write part timeout").with_context("upload_id", ..)
\*     .with_context("part_number", ..).set_temporary()
TimeoutError(input) ==
    Error("Unexpected", "write part timeout",
          <<<<"upload_id", input.upload_id>>, <<"part_number", input.part_number>>>>, TRUE)

\* the task body: (input, result), where result is the result wp of
\* write_part, unless the executor has a timeout and it wins the select!
TaskBody(input, timeout, timed_out, wp) ==
    [input |-> input,
     result |-> IF timeout /\ timed_out
                THEN [ok |-> FALSE, part |-> <<>>, err |-> <<TimeoutError(input)>>]
                ELSE wp]

\* the state of a task whose body returned out
Finish(out) ==
    IF out.result.ok THEN "ok"
    ELSE IF out.result.err[1].msg = "write part timeout" THEN "E_timeout"
    ELSE "E_part"

\* write_part of task i returns Ok: TestWrite records the part
PartOk(i) ==
    /\ i \in 1..Len(tasks)
    /\ tasks[i].st = "running"
    /\ LET out == TaskBody(tasks[i].input, has_timeout, FALSE, WritePartOk(tasks[i].input))
       IN  tasks' = [tasks EXCEPT ![i].st = Finish(out), ![i].out = <<out>>]
    /\ part_numbers' = Append(part_numbers, tasks[i].input.part_number)
    /\ length' = length + Len(tasks[i].input.bytes)
    /\ UNCHANGED <<writer, results, content, pc, hist, calls, submitted, completed, fails,
                   executor, logging, gcs>>

\* write_part of task i returns its temporary error
PartFail(i) ==
    /\ i \in 1..Len(tasks)
    /\ tasks[i].st = "running"
    /\ fails < MaxFails
    /\ fails' = fails + 1
    /\ LET out == TaskBody(tasks[i].input, has_timeout, FALSE, WritePartErr)
       IN  tasks' = [tasks EXCEPT ![i].st = Finish(out), ![i].out = <<out>>]
    /\ UNCHANGED <<writer, results, backend, pc, hist, calls, submitted, completed,
                   executor, logging, gcs>>

\* the executor's timeout wins the select! of task i
PartTimeout(i) ==
    /\ i \in 1..Len(tasks)
    /\ tasks[i].st = "running"
    /\ has_timeout
    /\ fails < MaxFails
    /\ fails' = fails + 1
    /\ LET out == TaskBody(tasks[i].input, has_timeout, TRUE, WritePartErr)
       IN  tasks' = [tasks EXCEPT ![i].st = Finish(out), ![i].out = <<out>>]
    /\ UNCHANGED <<writer, results, backend, pc, hist, calls, submitted, completed,
                   executor, logging, gcs>>

Next ==
    \/ \E ok \in BOOLEAN : Write(NextBuffer, ok)
    \/ \E ok \in BOOLEAN : Close(ok)
    \/ \E ok \in BOOLEAN : CloseDrain(ok)
    \/ \E ok \in BOOLEAN : Abort(ok)
    \/ \E i \in 1..Concurrent : PartOk(i)
    \/ \E i \in 1..Concurrent : PartFail(i)
    \/ \E i \in 1..Concurrent : PartTimeout(i)

Spec == Init /\ [][Next]_vars

\* ------------------------------------------------------------- types
TypeOK ==
    /\ Len(upload_id) <= 1
    /\ Len(cache) <= 1
    /\ next_part_number \in 0..MaxCalls
    /\ Len(hist) <= MaxCalls
    /\ Len(tasks) <= Concurrent
    /\ pc \in {"idle", "draining", "panicked"}
    /\ fails \in 0..MaxFails

\* ------------------------------------------------- history predicates
LastCall == hist[Len(hist)]

\* the last call of the caller was a close that returned Ok on the multipart path
MultipartClosed ==
    /\ hist # <<>>
    /\ LastCall.op = "close"
    /\ LastCall.res = "ok"
    /\ upload_id # <<>>

\* the step made the backend call op
Called(op) == Len(calls') > Len(calls) /\ calls'[Len(calls')].op = op

\* the step returned the caller's call op
Returned(op) == Len(hist') > Len(hist) /\ hist'[Len(hist')].op = op

\* ------------------------------------------------------------- C1
\* C1: when close has returned Ok on the multipart path, the part numbers of
\* the inputs the writer submitted to the pool are 0, 1, ..., N-1 in
\* submission order, N being next_part_number.
C1_DenseSubmission ==
    MultipartClosed => PartNumbersOf(submitted) = UpTo(next_part_number)

\* a completed session of at least three parts in which a write failed on
\* a part error and was retried
C1_Witness ==
    /\ MultipartClosed
    /\ next_part_number >= 3
    /\ \E i \in 1..Len(hist) :
          hist[i].op = "write" /\ hist[i].res \in {"E_part", "E_timeout"}

\* ------------------------------------------------------------- C2
\* C2: whenever close calls complete_part, the parts list it passes has
\* length next_part_number and its i-th element has part number i (so it is
\* sorted ascending), whatever the order in which the parts were stored.
C2_PartsSorted ==
    [][Called("complete_part") =>
         LET ps == calls'[Len(calls')].parts
         IN  /\ ps = parts
             /\ Len(ps) = next_part_number
             /\ \A i \in 1..Len(ps) : ps[i].part_number = i - 1]_vars

\* complete_part was called although the backend stored part 1 before part 0
C2_Witness ==
    /\ \E i \in 1..Len(calls) :
          calls[i].op = "complete_part" /\ Len(calls[i].parts) >= 2
    /\ Len(part_numbers) >= 2
    /\ part_numbers[1] > part_numbers[2]

\* ------------------------------------------------------------- C3
\* the caller is the retry driver of the tests: no abort, every failed write
\* is made again with the same buffer, every failed close is made again, and
\* nothing follows the close that returned Ok
RetryDriver ==
    \A i \in 1..Len(hist) :
        /\ hist[i].op # "abort"
        /\ hist[i].res # "panic"
        /\ (hist[i].op = "write" /\ hist[i].res # "ok" /\ i < Len(hist)) =>
               (hist[i + 1].op = "write" /\ hist[i + 1].bs = hist[i].bs)
        /\ (hist[i].op = "close" /\ i < Len(hist)) =>
               (hist[i].res # "ok" /\ hist[i + 1].op = "close")

\* the retry driver has finished: its close returned Ok
RetryDone == RetryDriver /\ hist # <<>> /\ LastCall.op = "close" /\ LastCall.res = "ok"

\* number of successful write_part calls for part number n
Stored(n) == Cardinality({i \in 1..Len(part_numbers) : part_numbers[i] = n})

\* the parts are 0..k-1 in order, each stored exactly once, and the backend
\* has recorded the size of everything that was written
ExactlyOnce(k) ==
    /\ PartNumbersOf(parts) = UpTo(k)
    /\ \A n \in 0..(k - 1) : Stored(n) = 1
    /\ Len(part_numbers) = k
    /\ length = SumLen(Accepted(hist))

\* C3 as stated: after K accepted writes and a successful close of the retry
\* driver, parts is 0..K-1, every part number was stored exactly once and the
\* recorded size is the sum of the written sizes, for every K.
C3_Original == RetryDone => ExactlyOnce(Len(Accepted(hist)))

\* C3 as amended: the statement holds for K >= 2; for K <= 1 the writer takes
\* the one-shot path, parts stays empty and no write_part is made, and the
\* recorded size is still the sum of the written sizes.
C3_RetryExactlyOnce ==
    RetryDone =>
        IF Len(Accepted(hist)) >= 2
        THEN ExactlyOnce(Len(Accepted(hist)))
        ELSE parts = <<>> /\ part_numbers = <<>> /\ length = SumLen(Accepted(hist))

\* the retry driver finished a multipart session whose close failed once on
\* a part error and once on a part timeout
C3_Witness ==
    /\ RetryDone
    /\ Len(Accepted(hist)) >= 2
    /\ \E i \in 1..Len(hist) : hist[i].op = "close" /\ hist[i].res = "E_part"
    /\ \E i \in 1..Len(hist) : hist[i].op = "close" /\ hist[i].res = "E_timeout"

\* ------------------------------------------------------------- C4
MultipartOps == {"initiate_part", "write_part", "complete_part", "abort_part"}

\* C4 as stated: no initiate_part, write_part, complete_part or abort_part
\* call precedes a write_once call that succeeds.
C4_Original ==
    \A i \in 1..Len(calls) :
        (calls[i].op = "write_once" /\ calls[i].res = "ok") =>
            \A j \in 1..(i - 1) : calls[j].op \notin MultipartOps

\* C4 as amended: before a write_once call that succeeds, no initiate_part
\* call has succeeded and no write_part, complete_part or abort_part call was
\* made; initiate_part calls that failed may precede it.
C4_OnceExcludesMultipart ==
    \A i \in 1..Len(calls) :
        (calls[i].op = "write_once" /\ calls[i].res = "ok") =>
            \A j \in 1..(i - 1) :
                \/ calls[j].op = "write_once"
                \/ calls[j].op = "initiate_part" /\ calls[j].res # "ok"

\* write_once succeeded after an initiate_part call that failed
C4_Witness ==
    \E i \in 1..Len(calls) :
        /\ calls[i].op = "write_once" /\ calls[i].res = "ok"
        /\ \E j \in 1..(i - 1) : calls[j].op = "initiate_part"

\* ------------------------------------------------------------- C5
\* C5: after one write(bs) and one close the backend has received exactly
\* one call, write_once(len(bs), bs), and close returned its result (its
\* Metadata when it succeeded); after a close with no write before it, the
\* single call is write_once(0, empty).
C5_OneShot ==
    /\ (Len(hist) = 2 /\ hist[1].op = "write" /\ hist[2].op = "close") =>
          /\ calls = <<BackendCall("write_once", <<>>, 0, Len(hist[1].bs), hist[1].bs,
                                   <<>>, hist[2].res)>>
          /\ hist[2].res = "ok" =>
                 (hist[2].meta = <<Len(hist[1].bs)>> /\ content = <<hist[1].bs>>)
    /\ (Len(hist) = 1 /\ hist[1].op = "close") =>
          calls = <<BackendCall("write_once", <<>>, 0, 0, <<>>, <<>>, hist[1].res)>>

\* one write and one successful close
C5_Witness ==
    /\ Len(hist) = 2
    /\ hist[1].op = "write"
    /\ hist[2].op = "close" /\ hist[2].res = "ok"
    /\ length = Len(hist[1].bs)

\* ------------------------------------------------------------- C6
\* k >= 2 writes and then a close, with no failure injected
PlainMultipart ==
    /\ fails = 0
    /\ Len(hist) >= 3
    /\ \A i \in 1..(Len(hist) - 1) : hist[i].op = "write"
    /\ LastCall.op = "close"

\* C6: without failures, after k >= 2 writes of b_0..b_{k-1} and a close, the
\* backend has received initiate_part once, then write_part(upload_id, i,
\* len(b_i), b_i) for i = 0..k-1 in that order, then one complete_part
\* (upload_id, parts) made after every part was stored, and nothing else.
C6_MultipartTrace ==
    PlainMultipart =>
        LET k == Len(hist) - 1
        IN  /\ LastCall.res = "ok"
            /\ calls =
                 <<BackendCall("initiate_part", <<>>, 0, 0, <<>>, <<>>, "ok")>>
                 \o [i \in 1..k |->
                       BackendCall("write_part", <<TestUploadId>>, i - 1,
                                   Len(hist[i].bs), hist[i].bs, <<>>, "spawned")]
                 \o <<BackendCall("complete_part", <<TestUploadId>>, 0, 0, <<>>,
                                  [i \in 1..k |-> MultipartPart(i - 1)], "ok")>>
            /\ Len(part_numbers) = k
            /\ Range(part_numbers) = 0..(k - 1)

\* a failure-free session of three parts that the backend stored out of order
C6_Witness ==
    /\ PlainMultipart
    /\ Len(hist) >= 4
    /\ \E i \in 1..(Len(part_numbers) - 1) : part_numbers[i] > part_numbers[i + 1]

\* ------------------------------------------------------------- C7
\* one write, then closes of which only the last one succeeded, all on the
\* one-shot path
OneShotRetried ==
    /\ Len(hist) >= 2
    /\ hist[1].op = "write"
    /\ \A i \in 2..Len(hist) :
          /\ hist[i].op = "close"
          /\ hist[i].res = IF i < Len(hist) THEN "E_once" ELSE "ok"

\* C7: a close whose write_once fails changes nothing in the writer (cache,
\* upload_id, parts, next_part_number) or its pool; and when the caller
\* re-invokes close until it succeeds, every write_once call carried the size
\* and body of the single write, and the backend holds exactly that buffer.
C7_OnceRetry ==
    [][/\ (Returned("close") /\ hist'[Len(hist')].res = "E_once") =>
             (writer' = writer /\ pool' = pool /\ backend' = backend)
       /\ OneShotRetried' =>
             /\ content' = <<hist'[1].bs>>
             /\ length' = Len(hist'[1].bs)
             /\ Len(calls') = Len(hist') - 1
             /\ \A i \in 1..Len(calls') :
                   /\ calls'[i].op = "write_once"
                   /\ calls'[i].size = Len(hist'[1].bs)
                   /\ calls'[i].body = hist'[1].bs]_vars

\* close succeeded on the one-shot path after two failed closes
C7_Witness == OneShotRetried /\ Len(hist) >= 4

\* ------------------------------------------------------------- C8
FailedResults == {"E_initiate", "E_part", "E_timeout"}

\* C8: a write that returns an error leaves cache and next_part_number
\* unchanged; next_part_number changes only by one and only in a step in
\* which the pool accepted a part carrying the old number; and a write
\* replaces the cache only when it returns Ok.
C8_FailedWriteFrame ==
    [][/\ (Returned("write") /\ hist'[Len(hist')].res \in FailedResults) =>
             (cache' = cache /\ next_part_number' = next_part_number)
       /\ (next_part_number' # next_part_number) =>
             /\ next_part_number' = next_part_number + 1
             /\ Len(submitted') = Len(submitted) + 1
             /\ submitted'[Len(submitted')].part_number = next_part_number
       /\ (Returned("write") /\ cache' # cache) => hist'[Len(hist')].res = "ok"]_vars

\* a write failed on initiate_part, a later write failed on a part error
\* surfaced by execute, and the retry of that write was accepted
C8_Witness ==
    \E i, j \in 1..Len(hist) :
        /\ i < j /\ j < Len(hist)
        /\ hist[i].op = "write" /\ hist[i].res = "E_initiate"
        /\ hist[j].op = "write" /\ hist[j].res \in {"E_part", "E_timeout"}
        /\ hist[j + 1].op = "write" /\ hist[j + 1].res = "ok"

\* ------------------------------------------------------------- C9
\* number of backend calls of op
NumCalls(op) == Cardinality({i \in 1..Len(calls) : calls[i].op = op})

\* number of returned calls of op made by the caller
NumReturned(op) == Cardinality({i \in 1..Len(hist) : hist[i].op = op})

\* C9 as stated: complete_part is invoked at most once on one writer.
C9_Original == NumCalls("complete_part") <= 1

\* C9 as amended: complete_part is invoked at most once per close call and by
\* no other call, so a writer never has more complete_part invocations than
\* close calls; a close made again after complete_part failed invokes it
\* again.
C9_OncePerClose ==
    [][/\ NumCalls("complete_part")' <= NumReturned("close")'
       /\ NumCalls("complete_part")' <= NumCalls("complete_part") + 1
       /\ Called("complete_part") => Returned("close")]_vars

\* complete_part failed and the next close invoked it again
C9_Witness ==
    \E i, j \in 1..Len(calls) :
        /\ i < j
        /\ calls[i].op = "complete_part" /\ calls[i].res = "E_complete"
        /\ calls[j].op = "complete_part" /\ calls[j].res = "ok"

\* ------------------------------------------------------------- C10
\* C10: abort on a writer whose upload_id is unset returns Ok, makes no
\* backend call and changes nothing in the writer, its pool or the backend.
C10_AbortNoop ==
    [][(Returned("abort") /\ upload_id = <<>>) =>
          /\ hist'[Len(hist')].res = "ok"
          /\ calls' = calls
          /\ writer' = writer
          /\ pool' = pool
          /\ backend' = backend]_vars

\* abort returned on a writer that holds a cached buffer and no upload id
C10_Witness ==
    /\ upload_id = <<>>
    /\ cache # <<>>
    /\ hist # <<>>
    /\ LastCall.op = "abort"

\* ------------------------------------------------------------- C11
\* the backend calls other than write_part, in order
RECURSIVE SessionOps(_)
SessionOps(cs) ==
    IF cs = <<>> THEN <<>>
    ELSE IF Head(cs).op = "write_part" THEN SessionOps(Tail(cs))
    ELSE <<Head(cs).op>> \o SessionOps(Tail(cs))

\* the caller made write, write, abort and nothing else
WriteWriteAbort ==
    /\ Len(hist) = 3
    /\ hist[1].op = "write" /\ hist[2].op = "write" /\ hist[3].op = "abort"

\* C11: abort on a writer whose upload_id is set leaves the pool empty and
\* the cache dropped and makes exactly one backend call, abort_part with the
\* writer's upload_id, whose result it returns; after write, write, abort
\* the backend has seen initiate_part and then abort_part, and no
\* complete_part or write_once.
C11_Abort ==
    [][/\ (Returned("abort") /\ upload_id # <<>>) =>
             /\ tasks' = <<>> /\ results' = <<>>
             /\ cache' = <<>>
             /\ calls' = Append(calls, BackendCall("abort_part", upload_id, 0, 0, <<>>,
                                                   <<>>, hist'[Len(hist')].res))
             /\ upload_id' = upload_id
       /\ (WriteWriteAbort' /\ hist'[2].res = "ok") =>
             SessionOps(calls') = <<"initiate_part", "abort_part">>]_vars

\* write, write, abort, where abort dropped a part that was still running
C11_Witness ==
    /\ WriteWriteAbort
    /\ hist[3].res = "ok"
    /\ tasks = <<>> /\ cache = <<>>
    /\ part_numbers = <<>>
    /\ calls[Len(calls)].op = "abort_part"

\* ------------------------------------------------------------- C12
\* a close or an abort has returned Ok
Finished == \E i \in 1..Len(hist) : hist[i].op \in {"close", "abort"} /\ hist[i].res = "ok"

StoreOps == {"write_once", "write_part", "complete_part"}

\* C12: once close or abort has returned Ok, no later call on the writer
\* makes a write_once, write_part or complete_part call.
C12_NoStoreCallAfterFinish ==
    [][Finished =>
         \A i \in (Len(calls) + 1)..Len(calls') : calls'[i].op \notin StoreOps]_vars

\* ------------------------------------------------------------- C13
\* C13: the results that next() returns come in the order of the execute()
\* calls: close appends to parts the part of the oldest submitted input that
\* it has not collected yet, whatever the order in which the tasks finished.
C13_NextInSubmissionOrder ==
    [][parts' # parts =>
         /\ Len(parts') = Len(parts) + 1
         /\ SubSeq(parts', 1, Len(parts)) = parts
         /\ Len(parts') <= Len(submitted)
         /\ parts'[Len(parts')].part_number = submitted[Len(parts')].part_number]_vars

\* next() returned part 0 and then part 1 although part 1 finished first
C13_Witness ==
    /\ Len(parts) >= 2
    /\ Len(part_numbers) >= 2
    /\ part_numbers[1] = 1 /\ part_numbers[2] = 0

\* ------------------------------------------------------------- C14
\* the write_part calls in flight
InFlight == {i \in 1..Len(tasks) : tasks[i].st = "running"}

\* C14: the pool is given the writer's `concurrent` argument as its limit,
\* and at most that many write_part calls are in flight at any time.
C14_ConcurrencyBound ==
    /\ PoolConcurrent(Concurrent) = Concurrent
    /\ Len(tasks) <= Concurrent
    /\ Cardinality(InFlight) <= Concurrent

\* as many write_part calls in flight as the bound allows
C14_Witness == Cardinality(InFlight) = Concurrent

\* ------------------------------------------------------------- C15
\* C15: when close calls complete_part the pool is drained (no task held, no
\* result queued) and every part number below next_part_number has a
\* successful write_part whose result is in parts.
C15_CompleteAfterDrain ==
    [][Called("complete_part") =>
         /\ tasks = <<>> /\ results = <<>>
         /\ tasks' = <<>> /\ results' = <<>>
         /\ \A n \in 0..(next_part_number - 1) :
               /\ \E i \in 1..Len(parts) : parts[i].part_number = n
               /\ \E i \in 1..Len(part_numbers) : part_numbers[i] = n]_vars

\* complete_part was called by a close that followed a close which a part
\* error had interrupted
C15_Witness ==
    /\ \E i \in 1..Len(calls) : calls[i].op = "complete_part"
    /\ \E i \in 1..Len(hist) :
          hist[i].op = "close" /\ hist[i].res \in {"E_part", "E_timeout"}
    /\ next_part_number >= 2

\* ------------------------------------------------------------- C16
\* C16: a finished part task holds (input, result) with its own input; when
\* the executor has a timeout and it won, result is an error of kind
\* Unexpected, temporary, with the context upload_id and part_number of that
\* task; otherwise, and always when the executor has no timeout, result is
\* what write_part returned.
C16_TaskResult ==
    \A i \in 1..Len(tasks) :
        tasks[i].st # "running" =>
            LET out == tasks[i].out[1]
                inp == tasks[i].input
            IN  /\ out.input = inp
                /\ tasks[i].st = "E_timeout" =>
                      /\ has_timeout
                      /\ out.result.ok = FALSE
                      /\ out.result.err[1].kind = "Unexpected"
                      /\ out.result.err[1].temporary = TRUE
                      /\ out.result.err[1].context =
                            <<<<"upload_id", inp.upload_id>>,
                              <<"part_number", inp.part_number>>>>
                /\ tasks[i].st = "ok" =>
                      out.result = [ok |-> TRUE, err |-> <<>>,
                                    part |-> <<[part_number |-> inp.part_number,
                                                etag |-> "etag"]>>]
                /\ tasks[i].st = "E_part" =>
                      /\ out.result.ok = FALSE
                      /\ out.result.err[1].context = <<>>
                      /\ out.result.err[1].msg = "I'm a crazy monkey!"
                /\ ~has_timeout => tasks[i].st \in {"ok", "E_part"}

\* the timeout won the race of the task of part 1 while the task of part 0
\* returned the error of write_part
C16_Witness ==
    /\ has_timeout
    /\ Len(tasks) = 2
    /\ tasks[1].st = "E_part"
    /\ tasks[2].st = "E_timeout" /\ tasks[2].input.part_number = 1

\* ------------------------------------------------------------- C17
RECURSIVE Concat(_)
Concat(bufs) == IF bufs = <<>> THEN <<>> ELSE Head(bufs) \o Concat(Tail(bufs))

\* the caller has made no call after the first close or abort that returned
\* Ok: the writer is still within the one session the Writer contract defines
InSession ==
    \A i \in 1..(Len(hist) - 1) : ~(hist[i].op \in {"close", "abort"} /\ hist[i].res = "ok")

\* the body that the backend received for part number n
BodyOf(cs, n) == (CHOOSE c \in Range(cs) : c.op = "write_part" /\ c.part_number = n).body

\* C17: within a session, the k-th input submitted to the pool has part
\* number k-1 and carries the buffer of the k-th accepted write; every
\* write_part call carries that buffer with size equal to its length; the
\* bodies of the parts passed to complete_part, concatenated in list order,
\* are the accepted write buffers concatenated in call order; and the body
\* of write_once is the single written buffer (empty when nothing was
\* written).
C17_DataOrder ==
    [][InSession' =>
        LET acc == Accepted(hist')
        IN  /\ Len(submitted') <= Len(acc)
            /\ \A k \in 1..Len(submitted') :
                    /\ submitted'[k].part_number = k - 1
                    /\ submitted'[k].bytes = acc[k]
            /\ \A i \in (Len(calls) + 1)..Len(calls') :
                    LET c == calls'[i]
                    IN  /\ c.op = "write_part" =>
                              /\ c.part_number < Len(acc)
                              /\ c.body = acc[c.part_number + 1]
                              /\ c.size = Len(c.body)
                        /\ c.op = "complete_part" =>
                              /\ Len(c.parts) = Len(acc)
                              /\ Concat([j \in 1..Len(c.parts) |->
                                            BodyOf(calls', c.parts[j].part_number)])
                                   = Concat(acc)
                        /\ c.op = "write_once" =>
                              /\ Len(acc) <= 1
                              /\ c.body = Concat(acc)
                              /\ c.size = Len(c.body)]_vars

\* a session of three accepted writes, one failure on the way, closed with
\* complete_part receiving the three parts
C17_Witness ==
    /\ InSession
    /\ MultipartClosed
    /\ Len(Accepted(hist)) = 3
    /\ fails >= 1
    /\ calls[Len(calls)].op = "complete_part" /\ Len(calls[Len(calls)].parts) = 3

\* ===================================================== the logging layer
\* bound of the logging specification: the number of calls the caller makes
\* on the accessor and on the stream wrappers it returned
MaxSteps == 4

\* the paths the caller names: a path, or a source and a different target
Paths == {"a"}
Targets == {"b"}
ErrorKinds == {"NotFound", "Unexpected"}
ChunkSizes == {4, 6}

\* the operations of LayeredAccess that LoggingAccessor implements
Operations ==
    {"create_dir", "read", "write", "copy", "rename", "stat", "delete", "list", "presign"}

\* the operations that return a stream together with their reply
StreamOps == {"read", "write", "delete", "list"}

\* the paths an operation takes: (from, to), nothing, or (path)
Inputs(op) ==
    IF op \in {"copy", "rename"} THEN {<<from, to>> : from \in Paths, to \in Targets}
    ELSE IF op = "delete" THEN {<<>>}
    ELSE {<<path>> : path \in Paths}

Remove(seq, i) == SubSeq(seq, 1, i - 1) \o SubSeq(seq, i + 1, Len(seq))

Buffer(n) == [i \in 1..n |-> 0]

Digit == <<"0", "1", "2", "3", "4", "5", "6", "7", "8", "9">>

\* u64 / usize to_string: the decimal digits, most significant first
RECURSIVE to_string(_)
to_string(n) == IF n < 10 THEN Digit[n + 1] ELSE to_string(n \div 10) \o Digit[(n % 10) + 1]

\* an interceptor that reports every error at Warn level
LevelWarn(err) == "Warn"

\* let lvl = if err.kind() == ErrorKind::Unexpected { Level::Error } else { Level::Warn }
Level(err) == IF err.kind = "Unexpected" THEN "Error" ELSE "Warn"

\* the error as the record prints it: {err:?} when the kind is Unexpected,
\* {err} otherwise
ErrorText(err) == [format |-> IF err.kind # "Unexpected" THEN "{}" ELSE "{:?}", err |-> err]

\* DefaultLoggingInterceptor::log: the records it emits through log!, in
\* order; the record at Debug level follows the if let Some(err) block
DefaultLoggingInterceptor_log(i, operation, context, message, err) ==
    LET record(lvl, text) ==
            [level |-> lvl, service |-> i.scheme, name |-> i.name, context |-> context,
             operation |-> operation, message |-> message, error |-> text]
    IN  (IF err # <<>> THEN <<record(Level(err[1]), <<ErrorText(err[1])>>)>> ELSE <<>>)
        \o <<record("Debug", <<>>)>>

\* one call of LoggingInterceptor::log, as the interceptor receives it, and
\* the records that the default interceptor emits for it
LogEvent(operation, context, message, err) ==
    [t |-> "log", info |-> info, operation |-> operation, context |-> context,
     message |-> message, err |-> err,
     emitted |-> DefaultLoggingInterceptor_log(info, operation, context, message, err)]

\* the call of the inner accessor and its return
InnerCall(operation, args) == [t |-> "inner_call", operation |-> operation, args |-> args]
InnerReturn(out) == [t |-> "inner_return", out |-> out]

\* what an inner operation can return: its reply, with the inner stream for
\* the operations that have one, or an error
RpOk(op) ==
    [ok |-> TRUE, rp |-> "rp", stream |-> IF op \in StreamOps THEN <<"inner">> ELSE <<>>,
     err |-> <<>>]
RpErr(kind) ==
    [ok |-> FALSE, rp |-> "", stream |-> <<>>, err |-> <<Error(kind, "inner", <<>>, FALSE)>>]
InnerOutcomes(op) == {RpOk(op)} \cup {RpErr(kind) : kind \in ErrorKinds}

\* the context the accessor logs: &[("path", path)], &[("from", from),
\* ("to", to)] or &[]
Context(op, paths) ==
    IF op \in {"copy", "rename"} THEN <<<<"from", paths[1]>>, <<"to", paths[2]>>>>
    ELSE IF op = "delete" THEN <<>>
    ELSE <<<<"path", paths[1]>>>>

\* an accessor that hands the paths to the inner accessor in reverse order
InnerArgsSwapped(op, paths) == [i \in 1..Len(paths) |-> paths[Len(paths) + 1 - i]]

\* self.inner.op(path, args) / self.inner.op(from, to, args) / self.inner.delete()
InnerArgs(op, paths) == paths

\* an accessor that logs "finished" for every successful operation
TerminalMessageFinished(op) == "finished"

\* the message logged when the inner operation returned Ok
TerminalMessage(op) ==
    IF op = "read" THEN "created reader"
    ELSE IF op = "write" THEN "created writer"
    ELSE IF op = "list" THEN "created lister"
    ELSE "finished"

LoggingReader_new(path, r) == [kind |-> "reader", path |-> path, read |-> 0, inner |-> r]
LoggingWriter_new(path, w) == [kind |-> "writer", path |-> path, written |-> 0, inner |-> w]
LoggingLister_new(path, inner) == [kind |-> "lister", path |-> path, listed |-> 0, inner |-> inner]
LoggingDeleter_new(inner) == [kind |-> "deleter", queued |-> 0, deleted |-> 0, inner |-> inner]

\* the wrapper that map(|(rp, r)| ..) puts around the inner stream
NewStream(op, paths, inner) ==
    IF op = "read" THEN LoggingReader_new(paths[1], inner)
    ELSE IF op = "write" THEN LoggingWriter_new(paths[1], inner)
    ELSE IF op = "list" THEN LoggingLister_new(paths[1], inner)
    ELSE LoggingDeleter_new(inner)

\* the event logged after the inner operation returned out:
\* inspect / map log the terminal message, inspect_err logs "failed" with the error
TerminalEvent(op, paths, out) ==
    IF out.ok THEN LogEvent(op, Context(op, paths), TerminalMessage(op), <<>>)
    ELSE LogEvent(op, Context(op, paths), "failed", out.err)

\* what the accessor returns after the inner operation returned out
Outcome(op, paths, out) ==
    IF out.ok /\ op \in StreamOps
    THEN [out EXCEPT !.stream = <<NewStream(op, paths, out.stream[1])>>]
    ELSE out

\* the caller is one task: it makes its next call when the last one returned
Awaiting == \E i \in 1..Len(ops) : ops[i].st = "awaiting"

CanCall == ~Awaiting /\ op_count + stream_count < MaxSteps

\* the operation starts: log "started", then call the inner accessor and await it
AccessorStart(op, paths) ==
    /\ CanCall
    /\ op_count' = op_count + 1
    /\ ops' = Append(ops,
          [operation |-> op, paths |-> paths, st |-> "awaiting",
           trace |-> <<LogEvent(op, Context(op, paths), "started", <<>>),
                       InnerCall(op, InnerArgs(op, paths))>>,
           ret |-> <<>>, stream |-> <<>>, slog |-> <<>>, ncalls |-> 0, delivered |-> 0,
           last |-> <<>>, call |-> <<>>, inner |-> <<>>, inner_out |-> <<>>,
           inner_queue |-> 0])
    /\ done' = <<>>
    /\ info_ret' = <<>>
    /\ UNCHANGED <<multipart, gcs, info, stream_count>>

\* the inner operation of ops[i] returns out: log the terminal event and return
AccessorFinish(i, out) ==
    /\ i \in 1..Len(ops)
    /\ ops[i].st = "awaiting"
    /\ out \in InnerOutcomes(ops[i].operation)
    /\ LET o == ops[i]
           ret == Outcome(o.operation, o.paths, out)
           rec == [o EXCEPT !.trace = @ \o <<InnerReturn(out),
                                            TerminalEvent(o.operation, o.paths, out)>>,
                            !.ret = <<ret>>,
                            !.stream = ret.stream,
                            !.st = IF ret.stream # <<>> THEN "open" ELSE "returned"]
       IN  IF rec.st = "open"
           THEN ops' = [ops EXCEPT ![i] = rec] /\ done' = <<>>
           ELSE ops' = Remove(ops, i) /\ done' = <<rec>>
    /\ info_ret' = <<>>
    /\ UNCHANGED <<multipart, gcs, info, op_count, stream_count>>

\* ------------------------------------------------------ LoggingReader
\* a call of a method of a stream, with its arguments
StreamCall(method, args) == [method |-> method, args |-> args]

\* what the inner reader can return: a chunk, the empty buffer, or an error
ReadOutcomes ==
    {[ok |-> TRUE, bs |-> Buffer(n), err |-> <<>>] : n \in ChunkSizes \cup {0}}
    \cup {[ok |-> FALSE, bs |-> <<>>, err |-> <<Error(kind, "inner", <<>>, FALSE)>>] :
            kind \in ErrorKinds}

\* a reader that remembers the size of the last chunk only
ReadAfterChunkReset(read, bs) == Len(bs)

\* self.read += bs.len() as u64
ReadAfterChunk(read, bs) == read + Len(bs)

\* LoggingReader::read, given what self.inner.read().await returned
LoggingReader_read(r, out) ==
    IF out.ok /\ out.bs = <<>>
    THEN [stream |-> r,
          log |-> <<LogEvent("read", <<<<"path", r.path>>, <<"read", to_string(r.read)>>,
                                       <<"size", to_string(Len(out.bs))>>>>,
                             "finished", <<>>)>>,
          inner |-> <<StreamCall("read", <<>>)>>,
          ret |-> out]
    ELSE IF out.ok
    THEN [stream |-> [r EXCEPT !.read = ReadAfterChunk(r.read, out.bs)],
          log |-> <<>>,
          inner |-> <<StreamCall("read", <<>>)>>,
          ret |-> out]
    ELSE [stream |-> r,
          log |-> <<LogEvent("read", <<<<"path", r.path>>, <<"read", to_string(r.read)>>>>,
                             "failed", out.err)>>,
          inner |-> <<StreamCall("read", <<>>)>>,
          ret |-> out]

\* the caller reads from the reader of ops[i]
ReaderRead(i, out) ==
    /\ i \in 1..Len(ops)
    /\ ops[i].st = "open"
    /\ ops[i].stream[1].kind = "reader"
    /\ CanCall
    /\ stream_count' = stream_count + 1
    /\ LET o == ops[i]
           r == LoggingReader_read(o.stream[1], out)
       IN  ops' = [ops EXCEPT ![i] =
                     [o EXCEPT !.stream = <<r.stream>>,
                               !.slog = @ \o r.log,
                               !.ncalls = @ + 1,
                               !.delivered = IF r.ret.ok THEN @ + Len(r.ret.bs) ELSE @,
                               !.last = <<r.ret>>,
                               !.call = <<StreamCall("read", <<>>)>>,
                               !.inner = r.inner,
                               !.inner_out = <<out>>]]
    /\ done' = <<>>
    /\ info_ret' = <<>>
    /\ UNCHANGED <<multipart, gcs, info, op_count>>

\* ------------------------------------------------------ LoggingLister
\* what the inner lister can return: an entry, the end of the stream, or an error
ListOutcomes ==
    {[ok |-> TRUE, entry |-> <<"entry">>, err |-> <<>>],
     [ok |-> TRUE, entry |-> <<>>, err |-> <<>>]}
    \cup {[ok |-> FALSE, entry |-> <<>>, err |-> <<Error(kind, "inner", <<>>, FALSE)>>] :
            kind \in ErrorKinds}

\* LoggingLister::next, given what self.inner.next().await returned
LoggingLister_next(l, out) ==
    IF out.ok /\ out.entry # <<>>
    THEN [stream |-> [l EXCEPT !.listed = @ + 1], log |-> <<>>,
          inner |-> <<StreamCall("next", <<>>)>>, ret |-> out]
    ELSE IF out.ok
    THEN [stream |-> l,
          log |-> <<LogEvent("list", <<<<"path", l.path>>,
                                       <<"listed", to_string(l.listed)>>>>,
                             "finished", <<>>)>>,
          inner |-> <<StreamCall("next", <<>>)>>,
          ret |-> out]
    ELSE [stream |-> l,
          log |-> <<LogEvent("list", <<<<"path", l.path>>,
                                       <<"listed", to_string(l.listed)>>>>,
                             "failed", out.err)>>,
          inner |-> <<StreamCall("next", <<>>)>>,
          ret |-> out]

\* the caller asks the lister of ops[i] for its next entry
ListerNext(i, out) ==
    /\ i \in 1..Len(ops)
    /\ ops[i].st = "open"
    /\ ops[i].stream[1].kind = "lister"
    /\ CanCall
    /\ stream_count' = stream_count + 1
    /\ LET o == ops[i]
           l == LoggingLister_next(o.stream[1], out)
       IN  ops' = [ops EXCEPT ![i] =
                     [o EXCEPT !.stream = <<l.stream>>,
                               !.slog = @ \o l.log,
                               !.ncalls = @ + 1,
                               !.delivered = IF l.ret.ok THEN @ + Len(l.ret.entry) ELSE @,
                               !.last = <<l.ret>>,
                               !.call = <<StreamCall("next", <<>>)>>,
                               !.inner = l.inner,
                               !.inner_out = <<out>>]]
    /\ done' = <<>>
    /\ info_ret' = <<>>
    /\ UNCHANGED <<multipart, gcs, info, op_count>>

\* ------------------------------------------------------ LoggingWriter
\* the errors an inner stream can return
StreamErrors ==
    {[ok |-> FALSE, err |-> <<Error(kind, "inner", <<>>, FALSE)>>] : kind \in ErrorKinds}

\* what the inner write, abort and delete can return: Ok(()) or an error
UnitOutcomes == {[ok |-> TRUE, err |-> <<>>]} \cup StreamErrors

\* what the inner close can return: Ok(meta) or an error
CloseOutcomes ==
    {[ok |-> TRUE, meta |-> <<"meta">>, err |-> <<>>]}
    \cup {[ok |-> FALSE, meta |-> <<>>, err |-> e.err] : e \in StreamErrors}

\* a writer that keeps the size of the last buffer only
WrittenReplaced(written, size) == size

\* self.written += size as u64
WrittenAfterWrite(written, size) == written + size

\* LoggingWriter::write, given what self.inner.write(bs).await returned
LoggingWriter_write(w, bs, out) ==
    LET size == Len(bs)
    IN  IF out.ok
        THEN [stream |-> [w EXCEPT !.written = WrittenAfterWrite(w.written, size)],
              log |-> <<>>,
              inner |-> <<StreamCall("write", <<bs>>)>>,
              ret |-> out]
        ELSE [stream |-> w,
              log |-> <<LogEvent("write", <<<<"path", w.path>>,
                                            <<"written", to_string(w.written)>>,
                                            <<"size", to_string(size)>>>>,
                                 "failed", out.err)>>,
              inner |-> <<StreamCall("write", <<bs>>)>>,
              ret |-> out]

\* a writer whose abort logs the error and returns Ok
LoggingWriter_abort_swallowed(w, out) ==
    [stream |-> w,
     log |-> <<LogEvent("write", <<<<"path", w.path>>, <<"written", to_string(w.written)>>>>,
                        IF out.ok THEN "abort succeeded" ELSE "abort failed", out.err)>>,
     inner |-> <<StreamCall("abort", <<>>)>>,
     ret |-> [ok |-> TRUE, err |-> <<>>]]

\* LoggingWriter::abort, given what self.inner.abort().await returned
LoggingWriter_abort(w, out) ==
    [stream |-> w,
     log |-> <<LogEvent("write", <<<<"path", w.path>>, <<"written", to_string(w.written)>>>>,
                        IF out.ok THEN "abort succeeded" ELSE "abort failed", out.err)>>,
     inner |-> <<StreamCall("abort", <<>>)>>,
     ret |-> out]

\* LoggingWriter::close, given what self.inner.close().await returned
LoggingWriter_close(w, out) ==
    [stream |-> w,
     log |-> <<LogEvent("write", <<<<"path", w.path>>, <<"written", to_string(w.written)>>>>,
                        IF out.ok THEN "close succeeded" ELSE "close failed", out.err)>>,
     inner |-> <<StreamCall("close", <<>>)>>,
     ret |-> out]

\* the step of a stream wrapper: c is the call the caller made, out what the
\* inner stream returned, w what the wrapper did, d what the caller received
\* (bytes, entries or accepted deletes) and q the change of the inner
\* deleter's queue
StreamStep(i, c, out, w, d, q) ==
    /\ CanCall
    /\ stream_count' = stream_count + 1
    /\ ops' = [ops EXCEPT ![i] =
                 [ops[i] EXCEPT !.stream = <<w.stream>>,
                                !.slog = @ \o w.log,
                                !.ncalls = @ + 1,
                                !.delivered = @ + d,
                                !.last = <<w.ret>>,
                                !.call = <<c>>,
                                !.inner = w.inner,
                                !.inner_out = <<out>>,
                                !.inner_queue = @ + q]]
    /\ done' = <<>>
    /\ info_ret' = <<>>
    /\ UNCHANGED <<multipart, gcs, info, op_count>>

\* the stream of ops[i] is open and of the given kind
Holds(i, kind) ==
    /\ i \in 1..Len(ops)
    /\ ops[i].st = "open"
    /\ ops[i].stream[1].kind = kind

\* the caller writes bs to the writer of ops[i]
WriterWrite(i, bs, out) ==
    /\ Holds(i, "writer")
    /\ StreamStep(i, StreamCall("write", <<bs>>), out,
                  LoggingWriter_write(ops[i].stream[1], bs, out),
                  IF out.ok THEN Len(bs) ELSE 0, 0)

\* the caller closes the writer of ops[i]
WriterClose(i, out) ==
    /\ Holds(i, "writer")
    /\ StreamStep(i, StreamCall("close", <<>>), out,
                  LoggingWriter_close(ops[i].stream[1], out), 0, 0)

\* the caller aborts the writer of ops[i]
WriterAbort(i, out) ==
    /\ Holds(i, "writer")
    /\ StreamStep(i, StreamCall("abort", <<>>), out,
                  LoggingWriter_abort(ops[i].stream[1], out), 0, 0)

\* ------------------------------------------------------ LoggingDeleter
\* OpDelete::version(): None or Some(version)
Versions == {<<>>, <<"v1">>}

\* what the inner flush can return when q deletes are queued in the inner
\* deleter: Ok(n) with n of them deleted, or an error
FlushOutcomes(q) ==
    {[ok |-> TRUE, flushed |-> n, err |-> <<>>] : n \in 0..q}
    \cup {[ok |-> FALSE, flushed |-> 0, err |-> e.err] : e \in StreamErrors}

\* a deleter that does not take the flushed deletes out of queued
QueuedAfterFlushKept(queued, flushed) == queued

\* self.queued -= flushed
QueuedAfterFlush(queued, flushed) == queued - flushed

\* a deleter that reports the count of the last flush only
DeletedReplaced(deleted, flushed) == flushed

\* self.deleted += flushed
DeletedAfterFlush(deleted, flushed) == deleted + flushed

\* args.version().map(|v| v.to_string()).unwrap_or_else(|| "<latest>".to_string())
VersionString(version) == IF version = <<>> THEN "<latest>" ELSE version[1]

\* LoggingDeleter::delete, given what self.inner.delete(path, args) returned
LoggingDeleter_delete(d, path, version, out) ==
    IF out.ok
    THEN [stream |-> [d EXCEPT !.queued = @ + 1], log |-> <<>>,
          inner |-> <<StreamCall("delete", <<path, version>>)>>, ret |-> out]
    ELSE [stream |-> d,
          log |-> <<LogEvent("delete", <<<<"path", path>>,
                                          <<"version", VersionString(version)>>,
                                          <<"queued", to_string(d.queued)>>,
                                          <<"deleted", to_string(d.deleted)>>>>,
                             "failed", out.err)>>,
          inner |-> <<StreamCall("delete", <<path, version>>)>>, ret |-> out]

\* LoggingDeleter::flush, given what self.inner.flush().await returned
LoggingDeleter_flush(d, out) ==
    IF out.ok
    THEN LET flushed == [d EXCEPT !.queued = QueuedAfterFlush(d.queued, out.flushed),
                                  !.deleted = DeletedAfterFlush(d.deleted, out.flushed)]
         IN  [stream |-> flushed,
              log |-> <<LogEvent("delete", <<<<"queued", to_string(flushed.queued)>>,
                                              <<"deleted", to_string(flushed.deleted)>>>>,
                                 "succeeded", <<>>)>>,
              inner |-> <<StreamCall("flush", <<>>)>>, ret |-> out]
    ELSE [stream |-> d,
          log |-> <<LogEvent("delete", <<<<"queued", to_string(d.queued)>>,
                                          <<"deleted", to_string(d.deleted)>>>>,
                             "failed", out.err)>>,
          inner |-> <<StreamCall("flush", <<>>)>>, ret |-> out]

\* the caller submits a delete to the deleter of ops[i]
DeleterDelete(i, path, version, out) ==
    /\ Holds(i, "deleter")
    /\ StreamStep(i, StreamCall("delete", <<path, version>>), out,
                  LoggingDeleter_delete(ops[i].stream[1], path, version, out),
                  IF out.ok THEN 1 ELSE 0, IF out.ok THEN 1 ELSE 0)

\* the caller flushes the deleter of ops[i]
DeleterFlush(i, out) ==
    /\ Holds(i, "deleter")
    /\ out \in FlushOutcomes(ops[i].inner_queue)
    /\ StreamStep(i, StreamCall("flush", <<>>), out,
                  LoggingDeleter_flush(ops[i].stream[1], out), 0, 0 - out.flushed)

\* the caller drops the stream wrapper of ops[i]
DropStream(i) ==
    /\ i \in 1..Len(ops)
    /\ ops[i].st = "open"
    /\ ~Awaiting
    /\ ops' = Remove(ops, i)
    /\ done' = <<>>
    /\ info_ret' = <<>>
    /\ UNCHANGED <<multipart, gcs, info, op_count, stream_count>>

\* ------------------------------------------------ LoggingAccessor::info
\* an accessor that hands out a descriptor without capabilities
LoggingAccessor_info_bare == [info EXCEPT !.capability = {}]

\* self.info.clone()
LoggingAccessor_info == info

\* the caller asks the accessor for its descriptor
Info ==
    /\ ~Awaiting
    /\ info_ret' = <<LoggingAccessor_info>>
    /\ done' = <<>>
    /\ UNCHANGED <<multipart, gcs, info, ops, op_count, stream_count>>

InitLog == Init /\ has_timeout = FALSE

NextLog ==
    \/ \E op \in Operations : \E paths \in Inputs(op) : AccessorStart(op, paths)
    \/ \E i \in 1..Len(ops) : \E out \in InnerOutcomes(ops[i].operation) : AccessorFinish(i, out)
    \/ \E i \in 1..Len(ops) : \E out \in ReadOutcomes : ReaderRead(i, out)
    \/ \E i \in 1..Len(ops) : \E out \in ListOutcomes : ListerNext(i, out)
    \/ \E i \in 1..Len(ops) : \E n \in ChunkSizes : \E out \in UnitOutcomes :
           WriterWrite(i, Buffer(n), out)
    \/ \E i \in 1..Len(ops) : \E out \in CloseOutcomes : WriterClose(i, out)
    \/ \E i \in 1..Len(ops) : \E out \in UnitOutcomes : WriterAbort(i, out)
    \/ \E i \in 1..Len(ops) : \E path \in Paths : \E version \in Versions :
           \E out \in UnitOutcomes : DeleterDelete(i, path, version, out)
    \/ \E i \in 1..Len(ops) : \E out \in FlushOutcomes(ops[i].inner_queue) :
           DeleterFlush(i, out)
    \/ \E i \in 1..Len(ops) : DropStream(i)
    \/ Info

SpecLog == InitLog /\ [][NextLog]_vars

\* the operations the model holds: in flight, with an open stream, or just returned
Records == Range(ops) \cup Range(done)

\* the messages of the log events of a trace, in order
Messages(trace) ==
    LET logs == SelectSeq(trace, LAMBDA e : e.t = "log")
    IN  [i \in 1..Len(logs) |-> logs[i].message]

\* ------------------------------------------------------------- C18
\* C18: every operation of LoggingAccessor calls the inner operation of the
\* same name exactly once with the paths it was given, and, once it has
\* returned, its result is the result of the inner operation: the same reply
\* with the inner stream inside the wrapper, or the same error.
C18_SameOutcome ==
    \A r \in Records :
        LET inner_calls == SelectSeq(r.trace, LAMBDA e : e.t = "inner_call")
            inner_returns == SelectSeq(r.trace, LAMBDA e : e.t = "inner_return")
        IN  /\ Len(inner_calls) = 1
            /\ inner_calls[1].operation = r.operation
            /\ inner_calls[1].args = r.paths
            /\ r.st = "awaiting" => r.ret = <<>> /\ inner_returns = <<>>
            /\ r.st # "awaiting" =>
                 /\ Len(inner_returns) = 1
                 /\ Len(r.ret) = 1
                 /\ LET out == inner_returns[1].out
                        ret == r.ret[1]
                    IN  /\ ret.ok = out.ok
                        /\ ret.rp = out.rp
                        /\ ret.err = out.err
                        /\ Len(ret.stream) = Len(out.stream)
                        /\ out.stream # <<>> => ret.stream[1].inner = out.stream[1]

\* a rename has just returned the error of the inner rename, while the
\* caller holds the reader of an earlier read
C18_Witness ==
    /\ done # <<>>
    /\ done[1].operation = "rename"
    /\ done[1].ret[1].ok = FALSE /\ done[1].ret[1].err[1].kind = "NotFound"
    /\ \E i \in 1..Len(ops) : ops[i].operation = "read" /\ ops[i].st = "open"

\* ------------------------------------------------------------- C19
\* the terminal message of a successful operation
ExpectedTerminal(op) ==
    CASE op = "read" -> "created reader"
      [] op = "write" -> "created writer"
      [] op = "list" -> "created lister"
      [] OTHER -> "finished"

\* C19: the trace of every accessor operation begins with the log event
\* "started" followed by the call of the inner operation; once the inner
\* operation has returned, exactly one more event was logged for the
\* operation, after the return: "failed" with the error of the inner
\* operation, or "created reader" / "created writer" / "created lister" for
\* read / write / list and "finished" for the other operations.
C19_StartedThenOneTerminal ==
    \A r \in Records :
        /\ r.trace[1].t = "log"
        /\ r.trace[1].message = "started"
        /\ r.trace[1].operation = r.operation
        /\ r.trace[1].err = <<>>
        /\ r.trace[2].t = "inner_call"
        /\ r.st = "awaiting" => Len(r.trace) = 2
        /\ r.st # "awaiting" =>
             /\ Len(r.trace) = 4
             /\ r.trace[3].t = "inner_return"
             /\ r.trace[4].t = "log"
             /\ r.trace[4].operation = r.operation
             /\ LET out == r.trace[3].out
                IN  IF out.ok
                    THEN /\ r.trace[4].message = ExpectedTerminal(r.operation)
                         /\ r.trace[4].err = <<>>
                    ELSE /\ r.trace[4].message = "failed"
                         /\ r.trace[4].err = out.err

\* a delete has just returned its deleter, a list returned its lister
\* before, and a third operation is awaiting the inner accessor
C19_Witness ==
    /\ Len(ops) = 3
    /\ ops[1].operation = "list" /\ ops[1].st = "open"
    /\ ops[2].operation = "delete" /\ ops[2].st = "open"
    /\ ops[3].st = "awaiting"

\* ------------------------------------------------------------- C20
\* the log events of an operation and of the stream it returned, in order
FullLog(r) == Messages(r.trace) \o Messages(r.slog)

\* the context that the end of the stream is logged with
FinishedContext(r) ==
    IF r.stream[1].kind = "reader"
    THEN <<<<"path", r.paths[1]>>, <<"read", to_string(r.delivered)>>, <<"size", "0">>>>
    ELSE <<<<"path", r.paths[1]>>, <<"listed", to_string(r.delivered)>>>>

\* C20: a call on a LoggingReader or a LoggingLister that returns a
\* non-empty chunk or an entry logs nothing; a call that returns the empty
\* buffer or the end of the stream logs "finished" with the number of bytes
\* or entries delivered so far; so a read to the end of the stream has
\* logged "started", "created reader", "finished", in this order.
C20_StreamLog ==
    [][stream_count' = stream_count + 1 =>
         \A i \in 1..Len(ops) :
             (/\ ops'[i].ncalls = ops[i].ncalls + 1
              /\ ops[i].stream[1].kind \in {"reader", "lister"}) =>
                 LET o == ops[i]
                     n == ops'[i]
                     out == n.last[1]
                     chunk == IF n.stream[1].kind = "reader" THEN out.bs ELSE out.entry
                 IN  /\ n.stream[1].kind \in {"reader", "lister"}
                     /\ (out.ok /\ chunk # <<>>) => n.slog = o.slog
                     /\ (out.ok /\ chunk = <<>>) =>
                          /\ Len(n.slog) = Len(o.slog) + 1
                          /\ SubSeq(n.slog, 1, Len(o.slog)) = o.slog
                          /\ n.slog[Len(n.slog)].message = "finished"
                          /\ n.slog[Len(n.slog)].err = <<>>
                          /\ n.slog[Len(n.slog)].operation = n.operation
                          /\ n.slog[Len(n.slog)].context = FinishedContext(n)
                          /\ o.slog = <<>> =>
                               FullLog(n) = <<"started",
                                              IF n.stream[1].kind = "reader"
                                              THEN "created reader" ELSE "created lister",
                                              "finished">>
                     /\ ~out.ok =>
                          /\ Len(n.slog) = Len(o.slog) + 1
                          /\ n.slog[Len(n.slog)].message = "failed"]_vars

\* a reader delivered chunks of 4 and of 6 bytes and then the empty buffer:
\* the log is started, created reader, finished with read=10
C20_Witness ==
    \E i \in 1..Len(ops) :
        /\ ops[i].operation = "read"
        /\ ops[i].st = "open"
        /\ ops[i].delivered = 10
        /\ ops[i].ncalls = 3
        /\ FullLog(ops[i]) = <<"started", "created reader", "finished">>
        /\ ops[i].slog[1].context = <<<<"path", "a">>, <<"read", "10">>, <<"size", "0">>>>

\* ------------------------------------------------------------- C21
\* C21: every call on a LoggingReader, LoggingWriter, LoggingLister or
\* LoggingDeleter makes exactly one call on the wrapped stream, of the same
\* method with the same arguments, and returns to the caller what that call
\* returned: the same buffer, entry, metadata, count or error.
C21_StreamPassThrough ==
    [][stream_count' = stream_count + 1 =>
         \A i \in 1..Len(ops) :
             ops'[i].ncalls = ops[i].ncalls + 1 =>
                 LET n == ops'[i]
                 IN  /\ Len(n.inner) = 1
                     /\ n.inner[1].method = n.call[1].method
                     /\ n.inner[1].args = n.call[1].args
                     /\ n.last = n.inner_out]_vars

\* a writer accepted a buffer and then its abort returned the error of the
\* inner abort
C21_Witness ==
    \E i \in 1..Len(ops) :
        /\ ops[i].st = "open"
        /\ ops[i].stream[1].kind = "writer"
        /\ ops[i].stream[1].written > 0
        /\ ops[i].call = <<StreamCall("abort", <<>>)>>
        /\ ops[i].last[1].ok = FALSE
        /\ ops[i].last[1].err[1].kind = "Unexpected"

\* ------------------------------------------------------------- C22
\* the value that a context holds for a key
ContextValue(context, key) ==
    context[CHOOSE j \in 1..Len(context) : context[j][1] = key][2]

\* C22: on a LoggingDeleter, a delete that the inner deleter accepted adds 1
\* to queued and logs nothing; a flush that returned Ok(n) takes n from
\* queued, adds n to deleted and logs "succeeded" with the new values; a
\* failed delete or flush leaves queued and deleted as they were and logs
\* "failed" with these values and the error.
C22_DeleterCounters ==
    [][stream_count' = stream_count + 1 =>
         \A i \in 1..Len(ops) :
             (/\ ops'[i].ncalls = ops[i].ncalls + 1
              /\ ops[i].stream[1].kind = "deleter") =>
                 LET o == ops[i].stream[1]
                     n == ops'[i].stream[1]
                     out == ops'[i].inner_out[1]
                     method == ops'[i].call[1].method
                     slog == ops'[i].slog
                     e == slog[Len(slog)]
                 IN  /\ (method = "delete" /\ out.ok) =>
                          /\ n.queued = o.queued + 1
                          /\ n.deleted = o.deleted
                          /\ slog = ops[i].slog
                     /\ (method = "flush" /\ out.ok) =>
                          /\ n.queued = o.queued - out.flushed
                          /\ n.deleted = o.deleted + out.flushed
                          /\ Len(slog) = Len(ops[i].slog) + 1
                          /\ e.message = "succeeded"
                          /\ e.err = <<>>
                          /\ e.context = <<<<"queued", to_string(n.queued)>>,
                                           <<"deleted", to_string(n.deleted)>>>>
                     /\ ~out.ok =>
                          /\ n.queued = o.queued
                          /\ n.deleted = o.deleted
                          /\ Len(slog) = Len(ops[i].slog) + 1
                          /\ e.message = "failed"
                          /\ e.err = out.err
                          /\ ContextValue(e.context, "queued") = to_string(o.queued)
                          /\ ContextValue(e.context, "deleted") = to_string(o.deleted)]_vars

\* two deletes were queued and a flush deleted one of them
C22_Witness ==
    \E i \in 1..Len(ops) :
        /\ ops[i].st = "open"
        /\ ops[i].stream[1].kind = "deleter"
        /\ ops[i].stream[1].queued = 1
        /\ ops[i].stream[1].deleted = 1
        /\ ops[i].slog[Len(ops[i].slog)].message = "succeeded"

\* ------------------------------------------------------------- C23
\* C23: whatever operations were made, the descriptor that LoggingAccessor
\* holds and that info() returns is the one inner.info() returned when the
\* layer was applied, with the same capability flags.
C23_InfoUnchanged ==
    /\ info = InnerInfo
    /\ info_ret # <<>> =>
         /\ info_ret[1] = InnerInfo
         /\ info_ret[1].capability = InnerInfo.capability

\* info() is called after the caller's four calls, with a stream still open
C23_Witness ==
    /\ info_ret # <<>>
    /\ op_count + stream_count = MaxSteps
    /\ ops # <<>>

\* ------------------------------------------------------------- C24
\* the log calls the interceptor received for the operations the model holds
LogEvents ==
    UNION {{e \in Range(r.trace) : e.t = "log"} \cup Range(r.slog) : r \in Records}

\* C24: for a log call with an error, the default interceptor emits the
\* record that carries the error at Error level when the kind of the error
\* is Unexpected and at Warn level otherwise, and no record at the other of
\* these two levels; for a log call without an error it emits at Debug level
\* only.
C24_Severity ==
    \A e \in LogEvents :
        LET levels == {e.emitted[j].level : j \in 1..Len(e.emitted)}
        IN  /\ e.err # <<>> =>
                 /\ e.emitted[1].error # <<>>
                 /\ e.emitted[1].error[1].err = e.err[1]
                 /\ e.emitted[1].level =
                        (IF e.err[1].kind = "Unexpected" THEN "Error" ELSE "Warn")
                 /\ levels \subseteq {e.emitted[1].level, "Debug"}
            /\ e.err = <<>> => levels = {"Debug"}

\* a reader was created and its reads failed with an Unexpected and with a
\* NotFound error
C24_Witness ==
    \E i \in 1..Len(ops) :
        /\ Len(ops[i].slog) = 2
        /\ ops[i].slog[1].err[1].kind = "Unexpected"
        /\ ops[i].slog[1].emitted[1].level = "Error"
        /\ ops[i].slog[2].err[1].kind = "NotFound"
        /\ ops[i].slog[2].emitted[1].level = "Warn"
        /\ ops[i].trace[4].emitted[1].level = "Debug"

\* ------------------------------------------------ GcsBackend::presign
\* presign calls made by the caller in one behaviour
MaxPresigns == 2

PresignOperations == {"Stat", "Read", "Write", "Delete"}
PresignPaths == {"a", "dir/b"}
Expires == {60, 3600}

\* an http request as GcsCore builds it: method, uri, headers and body
Request(method, path, ok) ==
    IF ok
    THEN [ok |-> TRUE,
          value |-> [method |-> method, uri |-> [path |-> path, query |-> <<>>],
                     headers |-> <<>>, body |-> <<>>]]
    ELSE [ok |-> FALSE, err |-> Error("Unexpected", "build request", <<>>, FALSE)]

\* GcsCore::gcs_head_object_xml_request
gcs_head_object_xml_request(path, ok) == Request("HEAD", path, ok)

\* GcsCore::gcs_get_object_xml_request
gcs_get_object_xml_request(path, ok) == Request("GET", path, ok)

\* GcsCore::gcs_insert_object_xml_request, with an empty body
gcs_insert_object_xml_request(path, ok) == Request("PUT", path, ok)

\* GcsCore::sign_query: signs the request in place by adding the signature
\* and the expiry to the query of its uri, or fails
sign_query(req, expire, ok) ==
    IF ok
    THEN [ok |-> TRUE,
          value |-> [req EXCEPT !.uri.query = <<"X-Goog-Signature", expire>>]]
    ELSE [ok |-> FALSE, err |-> Error("Unexpected", "sign request", <<>>, FALSE)]

\* one call on GcsCore with its result
CoreCall(fn, out) == [fn |-> fn, out |-> out]

\* a backend that builds a DELETE request for a Delete presign operation
PresignRequestDelete(operation, path, build_ok) ==
    CASE operation = "Stat" ->
             <<CoreCall("gcs_head_object_xml_request", gcs_head_object_xml_request(path, build_ok))>>
      [] operation = "Read" ->
             <<CoreCall("gcs_get_object_xml_request", gcs_get_object_xml_request(path, build_ok))>>
      [] operation = "Write" ->
             <<CoreCall("gcs_insert_object_xml_request", gcs_insert_object_xml_request(path, build_ok))>>
      [] operation = "Delete" ->
             <<CoreCall("gcs_delete_object_xml_request", Request("DELETE", path, build_ok))>>

\* let req = match args.operation() { ... }: the calls on the core and, last,
\* the value of the match; a Delete operation makes no call
PresignRequest(operation, path, build_ok) ==
    CASE operation = "Stat" ->
             <<CoreCall("gcs_head_object_xml_request", gcs_head_object_xml_request(path, build_ok))>>
      [] operation = "Read" ->
             <<CoreCall("gcs_get_object_xml_request", gcs_get_object_xml_request(path, build_ok))>>
      [] operation = "Write" ->
             <<CoreCall("gcs_insert_object_xml_request", gcs_insert_object_xml_request(path, build_ok))>>
      [] operation = "Delete" ->
             <<CoreCall("match", [ok |-> FALSE,
                                  err |-> Error("Unsupported", "operation is not supported",
                                                <<>>, FALSE)])>>

\* PresignedRequest::new(parts.method, parts.uri, parts.headers)
PresignedRequest_new(method, uri, headers) ==
    [method |-> method, uri |-> uri, headers |-> headers]

\* GcsBackend::presign: the calls it makes on the core and what it returns
GcsBackend_presign(path, operation, expire, build_ok, sign_ok) ==
    LET built == PresignRequest(operation, path, build_ok)
        core == SelectSeq(built, LAMBDA c : c.fn # "match")
        req == built[1].out
    IN  IF ~req.ok
        THEN [core |-> core, ret |-> req]
        ELSE LET signed == sign_query(req.value, expire, sign_ok)
                 signing == Append(core, CoreCall("sign_query", signed))
             IN  IF ~signed.ok
                 THEN [core |-> signing, ret |-> signed]
                 ELSE [core |-> signing,
                       ret |-> [ok |-> TRUE,
                                value |-> PresignedRequest_new(signed.value.method,
                                                               signed.value.uri,
                                                               signed.value.headers)]]

\* the caller presigns one operation on one path
Presign(path, operation, expire, build_ok, sign_ok) ==
    LET rp == GcsBackend_presign(path, operation, expire, build_ok, sign_ok)
    IN  /\ Len(presigned) < MaxPresigns
        /\ presigned' = Append(presigned,
                               [path |-> path, operation |-> operation, expire |-> expire,
                                core |-> rp.core, ret |-> rp.ret])
        /\ UNCHANGED <<multipart, logging>>

InitGcs == Init /\ has_timeout = FALSE

NextGcs ==
    \E path \in PresignPaths : \E operation \in PresignOperations : \E expire \in Expires :
        \E build_ok \in BOOLEAN : \E sign_ok \in BOOLEAN :
            Presign(path, operation, expire, build_ok, sign_ok)

SpecGcs == InitGcs /\ [][NextGcs]_vars

\* ------------------------------------------------------------- C25
\* C25: a presign of a Delete operation returns an Unsupported error and
\* makes no call on the core, so no signing is attempted; a presign of a
\* Stat, Read or Write operation whose request was built and signed returns
\* the presigned request made of the method, the uri and the headers of the
\* signed request, and otherwise the error of the step that failed.
C25_Presign ==
    \A k \in 1..Len(presigned) :
        LET c == presigned[k]
            n == Len(c.core)
        IN  /\ c.operation = "Delete" =>
                 /\ ~c.ret.ok
                 /\ c.ret.err.kind = "Unsupported"
                 /\ c.core = <<>>
            /\ c.operation # "Delete" =>
                 /\ n >= 1
                 /\ \A j \in 1..n : c.core[j].fn = "sign_query" <=> j = 2
                 /\ c.ret.ok <=> (n = 2 /\ c.core[n].out.ok)
                 /\ c.ret.ok =>
                      c.ret.value = [method |-> c.core[n].out.value.method,
                                     uri |-> c.core[n].out.value.uri,
                                     headers |-> c.core[n].out.value.headers]
                 /\ ~c.ret.ok => c.ret = c.core[n].out

\* a Delete was refused and a Read on the same path was presigned for an hour
C25_Witness ==
    /\ Len(presigned) = 2
    /\ presigned[1].operation = "Delete"
    /\ presigned[1].ret.err.kind = "Unsupported"
    /\ presigned[2].operation = "Read"
    /\ presigned[2].ret.ok
    /\ presigned[2].ret.value.method = "GET"
    /\ presigned[2].ret.value.uri.query = <<"X-Goog-Signature", 3600>>

\* ------------------------------------------------------------- C26
\* the part numbers of the write_part calls in the order in which their task
\* bodies were started for the first time
RECURSIVE FirstStarts(_)
FirstStarts(cs) ==
    IF cs = <<>> THEN <<>>
    ELSE LET c == cs[Len(cs)]
             rest == FirstStarts(SubSeq(cs, 1, Len(cs) - 1))
         IN  IF c.op = "write_part" /\ c.part_number \notin Range(rest)
             THEN Append(rest, c.part_number)
             ELSE rest

Cleared(cs) == \E i \in 1..Len(cs) : cs[i].op = "abort_part"

\* C27: once abort has cleared the pool, the pool is idle and stays idle:
\* it holds no task and no result and next() returns None; no part is
\* appended to parts from then on, so no result of a task submitted before
\* the abort reaches parts.
C27_IdleAfterClear ==
    [][Cleared(calls') =>
         /\ tasks' = <<>>
         /\ results' = <<>>
         /\ PoolNext(tasks', results').res = "none"
         /\ PoolNext(tasks', results').out = <<>>
         /\ Cleared(calls) => parts' = parts
         /\ ~Cleared(calls) => (parts' = parts /\ hist'[Len(hist')].op = "abort")]_vars

\* abort cleared a pool that held the finished part 0 and a second task; the
\* close that followed collected nothing
C27_Witness ==
    /\ Cleared(calls)
    /\ Len(submitted) >= 2
    /\ part_numbers # <<>>
    /\ parts = <<>>
    /\ LastCall.op = "close"

\* ------------------------------------------------------------- C28
\* close has left its loop over tasks.next(): the pool returned None
Drained == pc = "draining" /\ CanNext(tasks, results) /\ PoolNext(tasks, results).res = "none"

\* C28: when close has drained the pool and the number of collected parts
\* differs from next_part_number, close returns the part numbers mismatch
\* error (kind Unexpected) and makes no call on the backend: complete_part
\* is not called.  close returns that error in no other case.
C28_MismatchNoComplete ==
    [][/\ (Drained /\ Len(parts) # next_part_number) =>
            /\ hist' = Append(hist, DriverCall("close", <<>>, "E_mismatch", <<>>))
            /\ calls' = calls
            /\ completed' = completed
            /\ parts' = parts
       /\ (hist' # hist /\ hist'[Len(hist')].res = "E_mismatch") =>
            /\ Drained
            /\ Len(parts) # next_part_number
            /\ hist'[Len(hist')].op = "close"
            /\ ~\E i \in (Len(calls) + 1)..Len(calls') : calls'[i].op = "complete_part"]_vars

\* a close found no part collected for the two part numbers handed out and
\* returned the mismatch error; complete_part was never called
C28_Witness ==
    /\ hist # <<>>
    /\ LastCall.op = "close"
    /\ LastCall.res = "E_mismatch"
    /\ next_part_number = 2
    /\ parts = <<>>
    /\ ~\E i \in 1..Len(calls) : calls[i].op = "complete_part"

\* ------------------------------------------------------------- C29
\* the step is a write that the caller made and that returned
WriteReturned == Len(hist') = Len(hist) + 1 /\ hist'[Len(hist')].op = "write"

\* C29: a write that finds no upload id and an empty cache, as the first
\* write on a fresh writer does, stores its buffer in the cache and returns
\* Ok: it makes no backend call and submits no task, and upload_id, parts
\* and next_part_number keep their values.
C29_FirstWriteCachesOnly ==
    [][(WriteReturned /\ upload_id = <<>> /\ cache = <<>>) =>
         /\ hist'[Len(hist')].res = "ok"
         /\ cache' = <<hist'[Len(hist')].bs>>
         /\ calls' = calls
         /\ tasks' = tasks /\ results' = results
         /\ submitted' = submitted
         /\ upload_id' = upload_id
         /\ parts' = parts
         /\ next_part_number' = next_part_number]_vars

\* the writer after its first write: the buffer is cached and nothing else
\* has happened
C29_Witness ==
    /\ Len(hist) = 1
    /\ hist[1].op = "write" /\ hist[1].res = "ok"
    /\ cache = <<StreamBuffer(1)>>
    /\ calls = <<>>
    /\ tasks = <<>>
    /\ upload_id = <<>>
    /\ next_part_number = 0

\* ------------------------------------------------------------- C30
\* the calls that name an upload
UploadOps == {"write_part", "complete_part", "abort_part"}

\* the initiate_part calls that returned an upload id
Initiated == {i \in 1..Len(calls) : calls[i].op = "initiate_part" /\ calls[i].res = "ok"}

\* C30: initiate_part is called only by a write that finds upload_id unset
\* and a buffer in the cache; it succeeds at most once; once set, upload_id
\* is never changed or reset; every write_part, complete_part and abort_part
\* call carries the upload id that initiate_part returned, which is the one
\* the writer holds.
C30_OneUpload ==
    [][/\ \A i \in (Len(calls) + 1)..Len(calls') :
            calls'[i].op = "initiate_part" =>
                /\ upload_id = <<>>
                /\ cache # <<>>
                /\ hist'[Len(hist')].op = "write"
                /\ Len(hist') = Len(hist) + 1
                /\ calls'[i].res = "ok" => upload_id' = <<TestUploadId>>
       /\ Cardinality(Initiated') <= 1
       /\ upload_id # <<>> => upload_id' = upload_id
       /\ upload_id' # <<>> <=> Initiated' # {}
       /\ \A i \in 1..Len(calls') :
            calls'[i].op \in UploadOps =>
                /\ calls'[i].upload_id = upload_id'
                /\ upload_id' = <<TestUploadId>>]_vars

\* initiate_part failed once and succeeded once; a part was written under
\* the upload id and the upload was then aborted under the same id
C30_Witness ==
    /\ Cardinality(Initiated) = 1
    /\ \E i \in 1..Len(calls) : calls[i].op = "initiate_part" /\ calls[i].res # "ok"
    /\ \E i \in 1..Len(calls) : calls[i].op = "write_part" /\ calls[i].upload_id = upload_id
    /\ \E i \in 1..Len(calls) : calls[i].op = "abort_part" /\ calls[i].upload_id = upload_id

\* ======================================================= cancellation
\* The caller drops the future of a write or of a close at one of its
\* suspension points (the test driver does so with tokio::time::timeout).
\* The statements after the await have not run.  A primitive of TestWrite
\* commits its effect after its last await, so a dropped primitive call has
\* committed nothing; the tasks of the pool go on running.
CancelPoints == {"initiate_part", "execute", "write_once", "next", "complete_part"}

\* a writer that counts the part before it awaits execute
PartNumberCountedBeforeSubmit(n) == n + 1

\* next_part_number when the future is dropped at the await of execute:
\* self.next_part_number += 1 follows the await
PartNumberAfterCancel(n) == n

\* the caller made a call and dropped it before it returned
Cancelled(op, bs) == DriverCall(op, bs, "cancelled", <<>>)

\* write(bs) is dropped at the await of initiate_part or of tasks.execute
CancelWrite(bs, at) ==
    /\ UNCHANGED <<executor, logging, gcs>>
    /\ pc = "idle"
    /\ Len(hist) < MaxCalls
    /\ ~FirstWrite(upload_id, cache)
    /\ hist' = Append(hist, Cancelled("write", bs))
    /\ IF at = "initiate_part"
       THEN /\ upload_id = <<>>
            /\ UNCHANGED <<writer, pool, backend, pc, calls, submitted, completed, fails>>
       ELSE /\ at = "execute"
            /\ cache # <<>>
            /\ ~CanExecute(tasks, results)
            /\ upload_id' = IF upload_id = <<>> THEN RecordUploadId(TestUploadId)
                            ELSE upload_id
            /\ calls' = IF upload_id = <<>>
                        THEN Append(calls, BackendCall("initiate_part", <<>>, 0, 0,
                                                       <<>>, <<>>, "ok"))
                        ELSE calls
            /\ next_part_number' = PartNumberAfterCancel(next_part_number)
            /\ UNCHANGED <<parts, cache, pool, backend, pc, submitted, completed, fails>>

\* close() is dropped at the await of write_once, of tasks.execute, of
\* tasks.next or of complete_part
CancelClose(at) ==
    /\ UNCHANGED <<executor, logging, gcs>>
    /\ hist' = Append(hist, Cancelled("close", <<>>))
    /\ pc' = "idle"
    /\ CASE at = "write_once" ->
                pc = "idle" /\ Len(hist) < MaxCalls /\ upload_id = <<>>
         [] at = "execute" ->
                /\ pc = "idle" /\ Len(hist) < MaxCalls
                /\ upload_id # <<>> /\ cache # <<>>
                /\ ~CanExecute(tasks, results)
         [] at = "next" ->
                pc = "draining" /\ ~CanNext(tasks, results)
         [] at = "complete_part" ->
                /\ pc = "draining"
                /\ CanNext(tasks, results)
                /\ PoolNext(tasks, results).res = "none"
                /\ ~PartsMismatch(parts, next_part_number)
         [] OTHER -> FALSE
    /\ UNCHANGED <<writer, pool, backend, calls, submitted, completed, fails>>

NextCancel ==
    \/ \E ok \in BOOLEAN : Write(NextBuffer, ok)
    \/ \E ok \in BOOLEAN : Close(ok)
    \/ \E ok \in BOOLEAN : CloseDrain(ok)
    \/ \E ok \in BOOLEAN : Abort(ok)
    \/ \E i \in 1..Concurrent : PartOk(i)
    \/ \E i \in 1..Concurrent : PartFail(i)
    \/ \E i \in 1..Concurrent : PartTimeout(i)
    \/ \E at \in CancelPoints : CancelWrite(NextBuffer, at)
    \/ \E at \in CancelPoints : CancelClose(at)

\* the executor of the test driver has a timeout
InitCancel == Init /\ has_timeout = TRUE

SpecCancel == InitCancel /\ [][NextCancel]_vars

\* ------------------------------------------------------------- C31
\* the step is a call of op that the caller dropped
Dropped(op) ==
    /\ Len(hist') = Len(hist) + 1
    /\ hist'[Len(hist')].op = op
    /\ hist'[Len(hist')].res = "cancelled"

\* C31: a write or a close that is dropped leaves cache, next_part_number,
\* parts and the pool as they were (a write that went past its await has run
\* its whole update and is not dropped any more); within a session every
\* accepted buffer is submitted under the part number of its rank, so no
\* number is skipped and no buffer gets two numbers, and a close that
\* returns Ok after dropped calls completes the parts 0, 1, .., one for each
\* accepted write.
C31_CancelSafe ==
    [][/\ (Dropped("write") \/ Dropped("close")) =>
            /\ cache' = cache
            /\ next_part_number' = next_part_number
            /\ parts' = parts
            /\ tasks' = tasks /\ results' = results
            /\ submitted' = submitted
       /\ InSession' =>
            LET acc == Accepted(hist')
            IN  /\ Len(submitted') <= Len(acc)
                /\ next_part_number' = Len(submitted')
                /\ \A k \in 1..Len(submitted') :
                        /\ submitted'[k].part_number = k - 1
                        /\ submitted'[k].bytes = acc[k]
                /\ (MultipartClosed' /\ hist' # hist) =>
                        /\ PartNumbersOf(parts') = UpTo(Len(acc))
                        /\ length' = SumLen(acc)]_vars

\* a write was dropped while the pool was full, the same buffer was written
\* again, and close completed four parts
C31_Witness ==
    /\ MultipartClosed
    /\ InSession
    /\ \E i \in 1..Len(hist) : hist[i].op = "write" /\ hist[i].res = "cancelled"
    /\ Len(parts) = 4

\* ===================================================== the retry driver
\* The driver of the tests: it writes its buffers one after the other,
\* calling write again with the same buffer when it failed, then calls close
\* until close returns Ok, and stops.  It never calls abort.  Every failure
\* that the environment injects is temporary and the environment injects at
\* most MaxFails of them, so that every primitive succeeds when it is
\* retried often enough.
\* the number of buffers the driver may write: every failed call is the
\* effect of one injected failure, so the calls fit into MaxCalls
Writes == MaxCalls - MaxFails - 1

\* the driver has started to close
Closing == \E i \in 1..Len(hist) : hist[i].op = "close"

\* close has returned Ok
Closed == hist # <<>> /\ LastCall.op = "close" /\ LastCall.res = "ok"

\* loop { match w.write(bs.clone()).await { Ok(_) => break, Err(_) => continue } }
RetryWrite(ok) ==
    /\ ~Closing
    /\ pc = "idle"
    /\ Len(Accepted(hist)) < Writes
    /\ Write(NextBuffer, ok)

\* loop { match w.close().await { Ok(_) => break, Err(_) => continue } }
RetryClose(ok) ==
    /\ ~Closed
    /\ Close(ok)

NextRetry ==
    \/ \E ok \in BOOLEAN : RetryWrite(ok)
    \/ \E ok \in BOOLEAN : RetryClose(ok)
    \/ \E ok \in BOOLEAN : CloseDrain(ok)
    \/ \E i \in 1..Concurrent : PartOk(i)
    \/ \E i \in 1..Concurrent : PartFail(i)
    \/ \E i \in 1..Concurrent : PartTimeout(i)

\* the driver goes on looping and the executor goes on running the tasks
SpecRetry == Init /\ [][NextRetry]_vars /\ WF_vars(NextRetry)

\* ------------------------------------------------------------- C32
\* C32: when every failure is temporary and the primitives succeed once the
\* failures are used up, the driver that repeats each failed write and then
\* each failed close eventually gets Ok from close.
C32_RetryLiveness == <>Closed

\* close returned Ok on the multipart path after a write and a close had
\* failed and were called again
C32_Witness ==
    /\ Closed
    /\ upload_id # <<>>
    /\ \E i \in 1..Len(hist) : hist[i].op = "write" /\ hist[i].res # "ok"
    /\ \E i \in 1..Len(hist) : hist[i].op = "close" /\ hist[i].res # "ok"
    /\ Len(parts) = Writes

\* ------------------------------------------------------------- C33
\* the last call of the caller was an abort that returned an error
AbortFailed == hist # <<>> /\ LastCall.op = "abort" /\ LastCall.res # "ok"

\* C33: an abort whose abort_part call fails returns that error, keeps
\* upload_id and leaves the cache dropped; an abort that follows it calls
\* abort_part again with the same upload id and leaves the cache dropped.
C33_AbortRetry ==
    [][/\ (Returned("abort") /\ upload_id # <<>>) =>
            /\ Called("abort_part")
            /\ hist'[Len(hist')].res = calls'[Len(calls')].res
            /\ hist'[Len(hist')].res # "ok" =>
                 /\ hist'[Len(hist')].res = "E_abort"
                 /\ upload_id' = upload_id
                 /\ cache' = <<>>
       /\ (Returned("abort") /\ AbortFailed) =>
            /\ upload_id # <<>>
            /\ cache = <<>> /\ cache' = <<>>
            /\ Len(calls') = Len(calls) + 1
            /\ calls'[Len(calls')].op = "abort_part"
            /\ calls[Len(calls)].op = "abort_part"
            /\ calls'[Len(calls')].upload_id = calls[Len(calls)].upload_id
            /\ calls'[Len(calls')].upload_id = upload_id]_vars

\* abort_part failed and the abort that followed called it again, with
\* success, for the same upload
C33_Witness ==
    /\ Len(hist) >= 2
    /\ hist[Len(hist) - 1].op = "abort" /\ hist[Len(hist) - 1].res = "E_abort"
    /\ LastCall.op = "abort" /\ LastCall.res = "ok"
    /\ calls[Len(calls) - 1].op = "abort_part"
    /\ calls[Len(calls)].op = "abort_part"
    /\ calls[Len(calls)].upload_id = <<TestUploadId>>

\* ------------------------------------------------------------- C34
\* the backend call made last in the step, when the step made one
Primitive == IF Len(calls') > Len(calls) THEN <<calls'[Len(calls')]>> ELSE <<>>

\* the results a call of the caller can have
CallResults ==
    {"ok", "E_initiate", "E_once", "E_complete", "E_abort", "E_part", "E_timeout",
     "E_mismatch", "panic"}

\* C34: a write that returns an error of initiate_part, a close that returns
\* the result of write_once or of complete_part and an abort that returns
\* the result of abort_part return what the primitive returned; a write or a
\* close that returns a part failure returns the error of the oldest task of
\* the pool, which is the temporary Unexpected error of write_part itself
\* (or the timeout error of the task body when the timeout won); the only
\* error that the writer makes up is the part numbers mismatch of close.
C34_ErrorsUnchanged ==
    [][(Len(hist') = Len(hist) + 1) =>
         LET r == hist'[Len(hist')]
         IN  /\ r.res \in CallResults
             /\ \A c \in Range(Primitive) :
                    /\ c.op \in {"write_once", "complete_part", "abort_part"} => r.res = c.res
                    /\ (c.op = "initiate_part" /\ c.res # "ok") => r.res = c.res
             /\ r.res \in {"E_initiate", "E_once", "E_complete", "E_abort"} =>
                    /\ Primitive # <<>>
                    /\ Primitive[1].res = r.res
                    /\ Primitive[1].op =
                           (CASE r.res = "E_initiate" -> "initiate_part"
                              [] r.res = "E_once" -> "write_once"
                              [] r.res = "E_complete" -> "complete_part"
                              [] r.res = "E_abort" -> "abort_part")
                    /\ r.op = (CASE r.res = "E_initiate" -> "write"
                                 [] r.res = "E_abort" -> "abort"
                                 [] OTHER -> "close")
             /\ r.res \in {"E_part", "E_timeout"} =>
                    /\ r.op \in {"write", "close"}
                    /\ tasks # <<>>
                    /\ Finish(tasks[1].out[1]) = r.res
                    /\ r.res = "E_part" =>
                         /\ tasks[1].out[1].result = WritePartErr
                         /\ tasks[1].out[1].result.err[1].kind = "Unexpected"
                         /\ tasks[1].out[1].result.err[1].temporary
                    /\ r.res = "E_timeout" =>
                         tasks[1].out[1].result.err[1] = TimeoutError(tasks[1].input)
             /\ r.res = "E_mismatch" => r.op = "close"]_vars

\* a write returned the error of initiate_part and a close returned the
\* error of write_part
C34_Witness ==
    /\ \E i \in 1..Len(hist) : hist[i].op = "write" /\ hist[i].res = "E_initiate"
    /\ hist # <<>>
    /\ LastCall.op = "close" /\ LastCall.res = "E_part"

\* ------------------------------------------------------------- C35
\* C35: the written counter of a LoggingWriter is the sum of the sizes of the
\* buffers that the inner writer accepted; a write that succeeded logs
\* nothing; a write that failed leaves written as it was and logs "failed"
\* with the error, that value of written and the size of the buffer; close
\* and abort log one event, "close succeeded", "close failed", "abort
\* succeeded" or "abort failed" after the result of the inner call, with the
\* value of written.
C35_Written ==
    [][stream_count' = stream_count + 1 =>
         \A i \in 1..Len(ops) :
             (/\ ops'[i].ncalls = ops[i].ncalls + 1
              /\ ops[i].stream[1].kind = "writer") =>
                 LET o == ops[i].stream[1]
                     n == ops'[i].stream[1]
                     out == ops'[i].inner_out[1]
                     method == ops'[i].call[1].method
                     slog == ops'[i].slog
                     e == slog[Len(slog)]
                 IN  /\ n.written = ops'[i].delivered
                     /\ (method = "write" /\ out.ok) =>
                          /\ n.written = o.written + Len(ops'[i].call[1].args[1])
                          /\ slog = ops[i].slog
                     /\ (method = "write" /\ ~out.ok) =>
                          /\ n.written = o.written
                          /\ slog = Append(ops[i].slog, e)
                          /\ e.operation = "write"
                          /\ e.message = "failed"
                          /\ e.err = out.err
                          /\ ContextValue(e.context, "written") = to_string(o.written)
                          /\ ContextValue(e.context, "size") =
                                 to_string(Len(ops'[i].call[1].args[1]))
                     /\ method \in {"close", "abort"} =>
                          /\ n.written = o.written
                          /\ slog = Append(ops[i].slog, e)
                          /\ e.operation = "write"
                          /\ e.message = method \o (IF out.ok THEN " succeeded" ELSE " failed")
                          /\ e.err = out.err
                          /\ ContextValue(e.context, "written") = to_string(o.written)]_vars

\* a writer accepted 4 and 6 bytes and its close logged "close succeeded"
\* with written=10
C35_Witness ==
    \E i \in 1..Len(ops) :
        /\ ops[i].st = "open"
        /\ ops[i].stream[1].kind = "writer"
        /\ ops[i].stream[1].written = 10
        /\ Len(ops[i].slog) = 1
        /\ ops[i].slog[1].message = "close succeeded"
        /\ ContextValue(ops[i].slog[1].context, "written") = "10"

\* ------------------------------------------------------------- C36
\* an abort has been called on the writer
AbortCalled == \E i \in 1..Len(hist) : hist[i].op = "abort"

\* the part tasks that the pool holds: tasks in flight or finished, and
\* results that next() has not returned yet
Held == Len(tasks) + Len(results)

\* C36: between two calls, as long as abort has not been called,
\* next_part_number is the number of collected parts plus the number of
\* part tasks the pool holds; parts changes only inside close, by one part
\* appended at its end.
C36_PartsAccounting ==
    [][/\ (pc' = "idle" /\ ~AbortCalled') => next_part_number' = Len(parts') + Held'
       /\ parts' # parts =>
            /\ pc = "draining"
            /\ Len(parts') = Len(parts) + 1
            /\ SubSeq(parts', 1, Len(parts)) = parts]_vars

\* a close collected part 0 and returned the error of part 1, which the pool
\* holds again
C36_Witness ==
    /\ pc = "idle"
    /\ ~AbortCalled
    /\ Len(parts) >= 1
    /\ Len(tasks) >= 1
    /\ next_part_number = Len(parts) + Held
    /\ LastCall.op = "close" /\ LastCall.res = "E_part"

\* ------------------------------------------------------------- C37
\* the results of a close that failed after its loop over tasks.next() began
DrainErrors == {"E_part", "E_timeout", "E_complete"}

\* C37: a close that returns the error of next() or of complete_part leaves
\* the cache empty, next_part_number and the collected parts as they are; as
\* long as no abort was called and the session is open, every accepted
\* buffer, the final one included, has then been submitted once, under the
\* part number of its rank.  The close that follows it submits nothing, makes
\* no backend call before its loop and goes on with the parts and the pool
\* as the failed close left them.
C37_CloseRetry ==
    [][/\ (Returned("close") /\ pc = "draining" /\ hist'[Len(hist')].res \in DrainErrors) =>
            /\ cache = <<>> /\ cache' = <<>>
            /\ next_part_number' = next_part_number
            /\ parts' = parts
            /\ (InSession' /\ ~AbortCalled') =>
                 /\ Len(submitted') = Len(Accepted(hist'))
                 /\ next_part_number' = Len(submitted')
                 /\ \A k \in 1..Len(submitted') :
                        /\ submitted'[k].part_number = k - 1
                        /\ submitted'[k].bytes = Accepted(hist')[k]
       /\ (/\ pc = "idle" /\ pc' = "draining"
           /\ hist # <<>> /\ LastCall.op = "close" /\ LastCall.res \in DrainErrors
           /\ cache = <<>>) =>
            /\ submitted' = submitted
            /\ calls' = calls
            /\ writer' = writer
            /\ pool' = pool]_vars

\* close submitted the final part and collected the three parts, failed on
\* the error of complete_part, and the close that followed completed them
C37_Witness ==
    /\ MultipartClosed
    /\ InSession
    /\ Len(hist) >= 2
    /\ hist[Len(hist) - 1].op = "close" /\ hist[Len(hist) - 1].res = "E_complete"
    /\ Len(parts) = 3
    /\ Len(submitted) = 3

\* ------------------------------------------------------------- C38
\* the step is a write in which fill_cache ran: the write returned Ok
FillCacheRan == Returned("write") /\ hist'[Len(hist')].res = "ok"

\* C38: as long as no close and no abort has returned Ok, a write that
\* reaches the submit step finds the cache present, so that
\* expect("pending write must exist") does not panic, and fill_cache runs on
\* an empty cache: in the first write, or after the cached buffer was handed
\* to the pool and the cache was set to None.
C38_AssertionsHold ==
    [][~Finished =>
         /\ pc' # "panicked"
         /\ ~(Returned("write") /\ hist'[Len(hist')].res = "panic")
         /\ FillCacheRan =>
              \/ FirstWrite(upload_id, cache)
              \/ /\ submitted' = Append(submitted, submitted'[Len(submitted')])
                 /\ submitted'[Len(submitted')].bytes = cache[1]]_vars

\* ------------------------------------------------------------- C39
\* C39: on every LoggingDeleter, after any deletes and flushes, queued +
\* deleted is the number of deletes the inner deleter accepted, queued is
\* the number of deletes the inner deleter still holds, and queued never
\* went below zero: no flush returned a count above the queued it was
\* subtracted from.
C39_Conservation ==
    \A i \in 1..Len(ops) :
        (ops[i].st = "open" /\ ops[i].stream[1].kind = "deleter") =>
            LET d == ops[i].stream[1]
            IN  /\ d.queued + d.deleted = ops[i].delivered
                /\ d.queued = ops[i].inner_queue
                /\ d.queued >= 0
                /\ d.deleted >= 0

\* a deleter took two deletes and its flush returned Ok(2), all that was
\* queued: nothing is queued and both are counted as deleted
C39_Witness ==
    \E i \in 1..Len(ops) :
        /\ ops[i].st = "open"
        /\ ops[i].stream[1].kind = "deleter"
        /\ ops[i].delivered = 2
        /\ ops[i].stream[1].queued = 0
        /\ ops[i].stream[1].deleted = 2
        /\ ops[i].call[1].method = "flush"
        /\ ops[i].inner_out[1].ok
        /\ ops[i].inner_out[1].flushed = 2
====
